---- MODULE Spec2Model ----
(***************************************************************************)
(* PreGrade gateway (gateway-node): the preHandler that authenticates a    *)
(* tenant and rate-limits it, the onResponse hook that logs the request    *)
(* and records usage, the credential store behind validateApiKey, and the  *)
(* asynchronous job state machine of jobs.ts.                              *)
(*                                                                         *)
(* Node runs every callback to completion: one action of this module is    *)
(* the code between two awaits of one request (or one background task).    *)
(***************************************************************************)
EXTENDS Integers, Sequences, FiniteSets, TLC

VARIABLES
    env,          \* process.env, read by every call, fixed for the process
    nowMinute,    \* Math.floor(Date.now() / 1000 / 60)
    api_keys,     \* table api_keys of the credential store: a set of rows
    rateState,    \* the module-level Map<string, RateState> of the limiter
    reqs,         \* the requests in flight, one record per execution context
    rlHistory,    \* history: per subject, the limiter's decisions in minute nowMinute
    logRecords,   \* the log records the step just taken wrote
    usage_events, \* the rows the step just taken inserted into usage_events
    jobs,         \* table jobs: a sequence of rows, the id is the index
    tasks,        \* the background task of each job (runJobInBackground)
    jobWrites,    \* history: per job, the updateJob calls issued, in order
    work,         \* the route handler of each request in flight: its position and locals
    polled,       \* history: per job, the terminal state a poll has returned
    signed,       \* history: the getSignedUrl calls made
    uuids         \* history: how many crypto.randomUUID() values index.ts has drawn

vars == <<env, nowMinute, api_keys, rateState, reqs, rlHistory,
          logRecords, usage_events, jobs, tasks, jobWrites,
          work, polled, signed, uuids>>

jobVars == <<jobs, tasks, jobWrites>>

apiVars == <<work, polled, signed, uuids>>

----------------------------------------------------------------------------
(* Bounds of the model.                                                    *)

MaxSlots == 2       \* requests served concurrently
MaxMinute == 1      \* the clock runs over minutes 0..MaxMinute
MaxLimit == 2       \* the largest PREGRADE_RATE_LIMIT_PER_MIN configured
MaxJobs == 2        \* jobs created in one run
MaxApiJobs == 1     \* jobs created through POST /v1/jobs in one run
MaxUploads == 2     \* upload ids drawn in one run
MaxRequestIds == 2  \* request ids generated in one run

NULL == "<null>"    \* null / undefined

----------------------------------------------------------------------------
(* Strings.  A string of the program is a TLA+ string; trim() is tabulated *)
(* on the strings the model uses.                                          *)

Trim(s) ==
    CASE s = " "   -> ""
      [] s = " a " -> "a"
      [] s = " b"  -> "b"
      [] OTHER     -> s

\* (process.env[name] ?? '').trim() as a boolean: is the variable non-blank
NonBlank(s) == s # NULL /\ Trim(s) # ""

----------------------------------------------------------------------------
(* auth.ts: configuration                                                  *)

\* PREGRADE_API_KEYS is modelled as the list raw.split(',') of its segments;
\* the empty list is the unset (or blank) variable.
configuredApiKeys ==
    { Trim(env.PREGRADE_API_KEYS[i]) : i \in DOMAIN env.PREGRADE_API_KEYS } \ {""}

useSupabaseAuth ==
    NonBlank(env.SUPABASE_URL) /\ NonBlank(env.SUPABASE_SERVICE_ROLE_KEY)

\* Mutant: a key is demanded whatever the configuration.
requireApiKey_Always == TRUE

requireApiKey == useSupabaseAuth \/ configuredApiKeys # {}

\* A URL is its path segments and whether a query string follows.
pathOnly(url) == url.segs

IsPrefix(p, s) == Len(p) <= Len(s) /\ SubSeq(s, 1, Len(p)) = p

\* authAndRateLimit({ exemptPaths: ['/v1/health', '/v1/openapi.yaml', '/docs'] })
exemptPrefixes == { <<"v1", "health">>, <<"v1", "openapi.yaml">>, <<"docs">> }

\* a hook that exempts the OpenAPI document only
IsExempt_OpenapiOnly(url) == IsPrefix(<<"v1", "openapi.yaml">>, pathOnly(url))

\* path === p || path.startsWith(p + '/')
IsExempt(url) == \E p \in exemptPrefixes : IsPrefix(p, pathOnly(url))

----------------------------------------------------------------------------
(* tenantAuth.ts                                                           *)

\* Array.isArray(x) ? x[0] : x; then null unless a non-blank string; trimmed.
\* A header is [isArray, vals]: the absent header has no value.
apiKeyFromHeader(h) ==
    IF Len(h.vals) = 0 THEN NULL
    ELSE IF Trim(h.vals[1]) = "" THEN NULL
    ELSE Trim(h.vals[1])

Salt == "pregrade_dev_salt_change_me"

\* sha256(`${salt}:${apiKey}`): a one-way digest, injective on the model's keys
hashApiKey(apiKey) == [sha256 |-> <<Salt, ":", apiKey>>]

\* The store's answer to .eq('key_hash', h).limit(1).maybeSingle()
StoreSelect(apiKey) == { row \in api_keys : row.key_hash = hashApiKey(apiKey) }

NotOk(reason) == [ok |-> FALSE, reason |-> reason, tenantId |-> NULL, apiKeyId |-> NULL]

\* Mutant: the `!data` test is missing, a key with no row passes.
validateApiKey_NoRowPasses(answer) ==
    IF ~useSupabaseAuth THEN NotOk("misconfigured")
    ELSE IF answer.error THEN NotOk("invalid")
    ELSE IF answer.data = {} THEN [ok |-> TRUE, reason |-> "ok", tenantId |-> NULL, apiKeyId |-> NULL]
    ELSE LET data == CHOOSE row \in answer.data : TRUE IN
         IF data.revoked_at # NULL THEN NotOk("invalid")
         ELSE [ok |-> TRUE, reason |-> "ok", tenantId |-> data.tenant_id, apiKeyId |-> data.id]

\* Mutant: revoked_at is not looked at.
validateApiKey_IgnoresRevoked(answer) ==
    IF ~useSupabaseAuth THEN NotOk("misconfigured")
    ELSE IF answer.error \/ answer.data = {} THEN NotOk("invalid")
    ELSE LET data == CHOOSE row \in answer.data : TRUE IN
         [ok |-> TRUE, reason |-> "ok", tenantId |-> data.tenant_id, apiKeyId |-> data.id]

\* validateApiKey, given the store's answer { data, error }
validateApiKey(answer) ==
    IF ~useSupabaseAuth THEN NotOk("misconfigured")
    ELSE IF answer.error \/ answer.data = {} THEN NotOk("invalid")
    ELSE LET data == CHOOSE row \in answer.data : TRUE IN
         IF data.revoked_at # NULL THEN NotOk("invalid")
         ELSE [ok |-> TRUE, reason |-> "ok", tenantId |-> data.tenant_id, apiKeyId |-> data.id]

----------------------------------------------------------------------------
(* auth.ts: the rate limiter                                               *)

\* Number.parseInt(rawLimit, 10) of the trimmed variable
ParseLimit(raw) ==
    IF raw.kind = "int" THEN [finite |-> TRUE, n |-> raw.n] ELSE [finite |-> FALSE, n |-> 0]

\* a limiter that takes a limit of 0 for a limit
LimitActive_AcceptsZero ==
    /\ env.PREGRADE_RATE_LIMIT_PER_MIN.kind # "unset"
    /\ ParseLimit(env.PREGRADE_RATE_LIMIT_PER_MIN).finite

\* the limiter is active: rawLimit non-blank, finite and positive
LimitActive ==
    /\ env.PREGRADE_RATE_LIMIT_PER_MIN.kind # "unset"
    /\ ParseLimit(env.PREGRADE_RATE_LIMIT_PER_MIN).finite
    /\ ParseLimit(env.PREGRADE_RATE_LIMIT_PER_MIN).n > 0

limit == ParseLimit(env.PREGRADE_RATE_LIMIT_PER_MIN).n

\* Mutant: the window id is not compared, a stored counter is carried into
\* the next window.
CurrentWindow_NoRollover(apiKey) ==
    IF apiKey \in DOMAIN rateState
    THEN rateState[apiKey]
    ELSE [windowEpochMinute |-> nowMinute, count |-> 0]

\* Mutant: every request starts from a fresh counter, so the update of the
\* request before it is lost.
CurrentWindow_Fresh(apiKey) == [windowEpochMinute |-> nowMinute, count |-> 0]

\* prev && prev.windowEpochMinute === nowMinute ? prev : { nowMinute, 0 }
CurrentWindow(apiKey) ==
    IF apiKey \in DOMAIN rateState /\ rateState[apiKey].windowEpochMinute = nowMinute
    THEN rateState[apiKey]
    ELSE [windowEpochMinute |-> nowMinute, count |-> 0]

\* Mutant: an off-by-one comparison, current.count > limit.
Rejects_OffByOne(current) == current.count > limit

\* current.count >= limit
Rejects(current) == current.count >= limit

\* current.count += 1
Counted(current) == [current EXCEPT !.count = current.count + 1]

\* rateState.set(apiKey, current)
RateStateSet(apiKey, current) ==
    [k \in DOMAIN rateState \cup {apiKey} |-> IF k = apiKey THEN current ELSE rateState[k]]

----------------------------------------------------------------------------
(* The inputs of the model.                                                *)

Str(s) == [isArray |-> FALSE, vals |-> <<s>>]

\* X-API-Key as Node hands it over: absent, a string, or a list of strings
Headers ==
    { [isArray |-> FALSE, vals |-> <<>>], Str(" "), Str(" a "), Str("b"), Str("c"),
      [isArray |-> TRUE, vals |-> <<"a", "c">>] }

\* /v1/health?x=1, /v1/analyze
Urls ==
    { [segs |-> <<"v1", "health">>, query |-> TRUE],
      [segs |-> <<"v1", "analyze">>, query |-> FALSE] }

\* The keys provisioning hands out, each to a tenant of its own.
ProvisionedKeys == {"a"}
TenantOf(k) == IF k = "a" THEN "T1" ELSE "T2"
KeyIdOf(k) == IF k = "a" THEN "K1" ELSE "K2"

\* PREGRADE_RATE_LIMIT_PER_MIN: unset, "abc", "0", "1" .. MaxLimit
NoLimits == { [kind |-> "unset", n |-> 0], [kind |-> "nan", n |-> 0], [kind |-> "int", n |-> 0] }
Limits == { [kind |-> "int", n |-> n] : n \in 1..MaxLimit }

\* open mode; static allow-list "  a ,,b"; credential store; store and allow-list "c";
\* a half-configured store (URL without service key) with no allow-list
AuthEnvs ==
    { [SUPABASE_URL |-> NULL, SUPABASE_SERVICE_ROLE_KEY |-> NULL, PREGRADE_API_KEYS |-> <<>>],
      [SUPABASE_URL |-> NULL, SUPABASE_SERVICE_ROLE_KEY |-> NULL, PREGRADE_API_KEYS |-> <<" a ", "", "b">>],
      [SUPABASE_URL |-> "https://db", SUPABASE_SERVICE_ROLE_KEY |-> "svc", PREGRADE_API_KEYS |-> <<>>],
      [SUPABASE_URL |-> "https://db", SUPABASE_SERVICE_ROLE_KEY |-> "svc", PREGRADE_API_KEYS |-> <<"c">>],
      [SUPABASE_URL |-> "https://db", SUPABASE_SERVICE_ROLE_KEY |-> " ", PREGRADE_API_KEYS |-> <<>>] }

OpenEnvs == { a \in AuthEnvs : a.SUPABASE_URL = NULL /\ a.PREGRADE_API_KEYS = <<>> }

MkEnv(a, rl, py) ==
    [SUPABASE_URL |-> a.SUPABASE_URL,
     SUPABASE_SERVICE_ROLE_KEY |-> a.SUPABASE_SERVICE_ROLE_KEY,
     PREGRADE_API_KEYS |-> a.PREGRADE_API_KEYS,
     PREGRADE_RATE_LIMIT_PER_MIN |-> rl,
     PREGRADE_PYTHON_BASE_URL |-> py]

----------------------------------------------------------------------------
(* The requests.                                                           *)

\* a step that writes no log record and no usage event
Quiet == logRecords' = {} /\ usage_events' = {}

Slots == 1..MaxSlots

EmptyMap == [k \in {} |-> 0]

NoAnswer == [error |-> FALSE, data |-> {}]

\* the reply's x-ratelimit-limit, -remaining and -reset headers: not set, or set
NoRateLimitHeaders == [set |-> FALSE, limit |-> 0, remaining |-> 0, reset |-> 0]

IdleReq ==
    [pc |-> "idle", url |-> [segs |-> <<>>, query |-> FALSE], apiKeyStr |-> NULL,
     answer |-> NoAnswer, tenantId |-> NULL, apiKeyId |-> NULL,
     statusCode |-> 0, error_code |-> NULL, handlerRan |-> FALSE,
     rlHeaders |-> NoRateLimitHeaders,
     \* history of this request, read by no code:
     keyGiven |-> FALSE, limited |-> FALSE, subject |-> NULL, seenBefore |-> 0, revokedAtStart |-> FALSE, storeError |-> FALSE, reason |-> NULL]

\* Mutant: the hook sends its reply but does not return, so the route
\* handler runs all the same.
Reply_HandlerStillRuns(req, status, code) ==
    [req EXCEPT !.pc = "handler", !.statusCode = status, !.error_code = code]

\* reply.code(status).send({ ..., error_code }) from the hook: the request is
\* answered and its route handler is not run
Reply(req, status, code) ==
    [req EXCEPT !.pc = "send", !.statusCode = status, !.error_code = code]

\* History: how many requests of the subject reached the limiter in the
\* current wall-clock minute (counted up to limit + 1) and how many of them
\* it admitted.  The clock clears it (Tick), not the limiter.
SoFar(apiKey) ==
    IF apiKey \in DOMAIN rlHistory THEN rlHistory[apiKey] ELSE [seen |-> 0, admitted |-> 0]

Noted(apiKey, adm) ==
    LET d == SoFar(apiKey)
        e == [seen |-> IF d.seen > limit THEN d.seen ELSE d.seen + 1,
              admitted |-> IF adm THEN d.admitted + 1 ELSE d.admitted]
    IN  [k \in DOMAIN rlHistory \cup {apiKey} |-> IF k = apiKey THEN e ELSE rlHistory[k]]

\* remaining = Math.max(0, limit - current.count) and the three headers
\* (lines 102-105)
RateLimitHeaders(current) ==
    [set |-> TRUE, limit |-> limit,
     remaining |-> IF limit - current.count > 0 THEN limit - current.count ELSE 0,
     reset |-> (nowMinute + 1) * 60]

\* a limiter that keeps its windows by API key
RateLimit_PerKey(r, req) ==
    IF ~LimitActive
    THEN /\ reqs' = [reqs EXCEPT ![r] = [req EXCEPT !.pc = "handler"]]
         /\ UNCHANGED <<rateState, rlHistory>>
    ELSE LET apiKey == IF req.apiKeyStr # NULL THEN req.apiKeyStr ELSE "anonymous"
             current == CurrentWindow(apiKey)
             headers == RateLimitHeaders(current)
         IN  IF Rejects(current)
             THEN /\ reqs' = [reqs EXCEPT ![r] =
                                Reply([req EXCEPT !.limited = TRUE, !.subject = apiKey,
                                                  !.rlHeaders = headers,
                                                  !.seenBefore = SoFar(apiKey).seen],
                                      429, "RATE_LIMIT_EXCEEDED")]
                  /\ rlHistory' = Noted(apiKey, FALSE)
                  /\ UNCHANGED rateState
             ELSE /\ rateState' = RateStateSet(apiKey, Counted(current))
                  /\ rlHistory' = Noted(apiKey, TRUE)
                  /\ reqs' = [reqs EXCEPT ![r] =
                                [req EXCEPT !.pc = "handler", !.limited = TRUE, !.subject = apiKey,
                                            !.rlHeaders = headers,
                                            !.seenBefore = SoFar(apiKey).seen]]

\* Lines 87-118 of preHandler, run in one piece: no await lies between the
\* read of rateState and rateState.set.
RateLimit(r, req) ==
    IF ~LimitActive
    THEN /\ reqs' = [reqs EXCEPT ![r] = [req EXCEPT !.pc = "handler"]]
         /\ UNCHANGED <<rateState, rlHistory>>
    ELSE LET apiKey == IF req.tenantId # NULL THEN req.tenantId ELSE "anonymous"
             current == CurrentWindow(apiKey)
             headers == RateLimitHeaders(current)
         IN  IF Rejects(current)
             THEN /\ reqs' = [reqs EXCEPT ![r] =
                                Reply([req EXCEPT !.limited = TRUE, !.subject = apiKey,
                                                  !.rlHeaders = headers,
                                                  !.seenBefore = SoFar(apiKey).seen],
                                      429, "RATE_LIMIT_EXCEEDED")]
                  /\ rlHistory' = Noted(apiKey, FALSE)
                  /\ UNCHANGED rateState
             ELSE /\ rateState' = RateStateSet(apiKey, Counted(current))
                  /\ rlHistory' = Noted(apiKey, TRUE)
                  /\ reqs' = [reqs EXCEPT ![r] =
                                [req EXCEPT !.pc = "handler", !.limited = TRUE, !.subject = apiKey,
                                            !.rlHeaders = headers,
                                            !.seenBefore = SoFar(apiKey).seen]]

IsRevoked(k) == \E row \in StoreSelect(k) : row.revoked_at # NULL

\* a hook that lets a key of PREGRADE_API_KEYS in before it asks the
\* credential store
Receive_AllowListFirst(r, url, h) ==
    /\ reqs[r].pc = "idle"
    /\ \A q \in Slots : q < r => reqs[q].pc # "idle"
    /\ UNCHANGED <<env, nowMinute, api_keys, jobVars, polled, signed, uuids>> /\ Quiet
    /\ LET apiKeyStr == apiKeyFromHeader(h)
           req == [IdleReq EXCEPT !.url = url, !.keyGiven = Len(h.vals) > 0]
       IN  IF IsExempt(url)
           THEN /\ reqs' = [reqs EXCEPT ![r] = [req EXCEPT !.pc = "handler"]]
                /\ UNCHANGED <<rateState, rlHistory>>
           ELSE IF ~requireApiKey
           THEN RateLimit(r, req)
           ELSE IF apiKeyStr = NULL
           THEN /\ reqs' = [reqs EXCEPT ![r] = Reply(req, 401, "MISSING_API_KEY")]
                /\ UNCHANGED <<rateState, rlHistory>>
           ELSE IF apiKeyStr \in configuredApiKeys
           THEN RateLimit(r, [req EXCEPT !.apiKeyStr = apiKeyStr, !.tenantId = apiKeyStr])
           ELSE IF useSupabaseAuth
           THEN /\ reqs' = [reqs EXCEPT ![r] =
                              [req EXCEPT !.pc = "lookup", !.apiKeyStr = apiKeyStr,
                                          !.revokedAtStart = IsRevoked(apiKeyStr)]]
                /\ UNCHANGED <<rateState, rlHistory>>
           ELSE /\ reqs' = [reqs EXCEPT ![r] =
                              Reply([req EXCEPT !.apiKeyStr = apiKeyStr], 401, "INVALID_API_KEY")]
                /\ UNCHANGED <<rateState, rlHistory>>

\* preHandler up to its first await (lines 35-56), or to its end when the
\* credential store is not in use.  What the request brings for its route
\* handler (work) is set by the step that receives it.
Receive(r, url, h) ==
    /\ reqs[r].pc = "idle"
    /\ \A q \in Slots : q < r => reqs[q].pc # "idle"
    /\ UNCHANGED <<env, nowMinute, api_keys, jobVars, polled, signed, uuids>> /\ Quiet
    /\ LET apiKeyStr == apiKeyFromHeader(h)
           req == [IdleReq EXCEPT !.url = url, !.keyGiven = Len(h.vals) > 0]
       IN  IF IsExempt(url)
           THEN /\ reqs' = [reqs EXCEPT ![r] = [req EXCEPT !.pc = "handler"]]
                /\ UNCHANGED <<rateState, rlHistory>>
           ELSE IF ~requireApiKey
           THEN RateLimit(r, req)
           ELSE IF apiKeyStr = NULL
           THEN /\ reqs' = [reqs EXCEPT ![r] = Reply(req, 401, "MISSING_API_KEY")]
                /\ UNCHANGED <<rateState, rlHistory>>
           ELSE IF useSupabaseAuth
           THEN /\ reqs' = [reqs EXCEPT ![r] =
                              [req EXCEPT !.pc = "lookup", !.apiKeyStr = apiKeyStr,
                                          !.revokedAtStart = IsRevoked(apiKeyStr)]]
                /\ UNCHANGED <<rateState, rlHistory>>
           ELSE IF apiKeyStr \notin configuredApiKeys
           THEN /\ reqs' = [reqs EXCEPT ![r] =
                              Reply([req EXCEPT !.apiKeyStr = apiKeyStr], 401, "INVALID_API_KEY")]
                /\ UNCHANGED <<rateState, rlHistory>>
           ELSE RateLimit(r, [req EXCEPT !.apiKeyStr = apiKeyStr, !.tenantId = apiKeyStr])

\* The credential store answers the query of validateApiKey: the matching
\* row, no row, or an error when it cannot be reached.
StoreLookup(r) ==
    /\ reqs[r].pc = "lookup"
    /\ \E err \in BOOLEAN :
         reqs' = [reqs EXCEPT ![r].pc = "resume",
                              ![r].storeError = err,
                              ![r].answer = [error |-> err,
                                             data |-> IF err THEN {} ELSE StoreSelect(reqs[r].apiKeyStr)]]
    /\ UNCHANGED <<env, nowMinute, api_keys, rateState, rlHistory, jobVars, apiVars>> /\ Quiet

\* a hook that counts the request against 'anonymous' before it looks at
\* the outcome of validateApiKey
AuthResume_CountsRejected(r) ==
    /\ reqs[r].pc = "resume"
    /\ UNCHANGED <<env, nowMinute, api_keys, jobVars, apiVars>> /\ Quiet
    /\ LET v == validateApiKey(reqs[r].answer)
           req == [reqs[r] EXCEPT !.reason = v.reason]
       IN  IF ~v.ok
           THEN /\ reqs' = [reqs EXCEPT ![r] = Reply(req, 401, "INVALID_API_KEY")]
                /\ rateState' = IF LimitActive
                                 THEN RateStateSet("anonymous", Counted(CurrentWindow("anonymous")))
                                 ELSE rateState
                /\ UNCHANGED rlHistory
           ELSE RateLimit(r, [req EXCEPT !.tenantId = v.tenantId, !.apiKeyId = v.apiKeyId])

\* preHandler after `await validateApiKey` (lines 57-118).
AuthResume(r) ==
    /\ reqs[r].pc = "resume"
    /\ UNCHANGED <<env, nowMinute, api_keys, jobVars, apiVars>> /\ Quiet
    /\ LET v == validateApiKey(reqs[r].answer)
           req == [reqs[r] EXCEPT !.reason = v.reason]
       IN  IF ~v.ok
           THEN /\ reqs' = [reqs EXCEPT ![r] = Reply(req, 401, "INVALID_API_KEY")]
                /\ UNCHANGED <<rateState, rlHistory>>
           ELSE RateLimit(r, [req EXCEPT !.tenantId = v.tenantId, !.apiKeyId = v.apiKeyId])

\* The route handler answers.
Handler(r) ==
    /\ reqs[r].pc = "handler"
    /\ reqs' = [reqs EXCEPT ![r].pc = "send", ![r].handlerRan = TRUE, ![r].statusCode = 200]
    /\ UNCHANGED <<env, nowMinute, api_keys, rateState, rlHistory, jobVars, apiVars>> /\ Quiet

\* `${req.method} ${req.url.split('?')[0]}`, the method left out
RouteOf(url) == url.segs

\* logUsage: a no-op unless the store is configured; the insert may fail,
\* which the hook ignores.
logUsage(evt, stored) ==
    IF ~(NonBlank(env.SUPABASE_URL) /\ NonBlank(env.SUPABASE_SERVICE_ROLE_KEY)) \/ ~stored
    THEN {}
    ELSE { [tenant_id |-> evt.tenantId, api_key_id |-> evt.apiKeyId,
                               route |-> evt.route, status_code |-> evt.statusCode] }

\* a hook in which a failed insert turns the response into a 500
OnResponse_FailureSurfaces(r) ==
    /\ reqs[r].pc = "send"
    /\ logRecords' = { [tenant_id |-> reqs[r].tenantId, route |-> RouteOf(reqs[r].url),
                         status |-> reqs[r].statusCode] }
    /\ \E stored \in BOOLEAN :
         /\ usage_events' = logUsage([tenantId |-> reqs[r].tenantId, apiKeyId |-> reqs[r].apiKeyId,
                                      route |-> RouteOf(reqs[r].url),
                                      statusCode |-> reqs[r].statusCode], stored)
         /\ reqs' = [reqs EXCEPT ![r] =
                        IF stored THEN IdleReq
                        ELSE [reqs[r] EXCEPT !.statusCode = 500,
                                             !.error_code = "INTERNAL_ERROR"]]
    /\ UNCHANGED <<env, nowMinute, api_keys, rateState, rlHistory, jobVars, apiVars>>

\* The onResponse hook: the structured request log, then the usage event.
OnResponse(r) ==
    /\ reqs[r].pc = "send"
    /\ logRecords' = { [tenant_id |-> reqs[r].tenantId, route |-> RouteOf(reqs[r].url),
                         status |-> reqs[r].statusCode] }
    /\ \E stored \in BOOLEAN :
         usage_events' = logUsage([tenantId |-> reqs[r].tenantId, apiKeyId |-> reqs[r].apiKeyId,
                                   route |-> RouteOf(reqs[r].url),
                                   statusCode |-> reqs[r].statusCode], stored)
    /\ reqs' = [reqs EXCEPT ![r] = IdleReq]
    /\ UNCHANGED <<env, nowMinute, api_keys, rateState, rlHistory, jobVars, apiVars>>

----------------------------------------------------------------------------
(* The credential store's other writers, and the clock.                    *)

\* scripts/provision: insert { tenant_id, name, key_hash: hashApiKey(apiKey, salt) }
Provision(k) ==
    /\ useSupabaseAuth
    /\ StoreSelect(k) = {}
    /\ api_keys' = api_keys \cup
           { [id |-> KeyIdOf(k), tenant_id |-> TenantOf(k), key_hash |-> hashApiKey(k),
              revoked_at |-> NULL] }
    /\ UNCHANGED <<env, nowMinute, rateState, reqs, rlHistory, jobVars, apiVars>> /\ Quiet

\* An operator sets revoked_at of a key; nothing in the gateway clears it.
Revoke(k) ==
    /\ \E row \in StoreSelect(k) :
         /\ row.revoked_at = NULL
         /\ api_keys' = (api_keys \ {row}) \cup {[row EXCEPT !.revoked_at = "ts"]}
    /\ UNCHANGED <<env, nowMinute, rateState, reqs, rlHistory, jobVars, apiVars>> /\ Quiet

\* The wall clock enters the next minute.
Tick ==
    /\ nowMinute < MaxMinute
    /\ nowMinute' = nowMinute + 1
    /\ rlHistory' = EmptyMap
    /\ UNCHANGED <<env, api_keys, rateState, reqs, jobVars, apiVars>> /\ Quiet

----------------------------------------------------------------------------
(* The route handlers of index.ts: what a request carries and what its     *)
(* handler holds between two awaits.                                       *)

\* a JSON number field: absent, or the number n
Missing == [t |-> "missing", n |-> 0]
Num(n) == [t |-> "number", n |-> n]

\* an image field { encoding, data }: absent, or an object
NoImage == [present |-> FALSE, encoding |-> NULL, data |-> NULL]
Image(encoding, data) == [present |-> TRUE, encoding |-> encoding, data |-> data]

\* A request body: a JSON object with the fields the routes read (NULL is an
\* absent field), or a JSON value that is no object.  `id` is the :id of
\* GET /v1/jobs/:id: a job number written as a uuid, or 0 for a parameter
\* that is no uuid.
NoBody ==
    [isObject |-> TRUE, kind |-> NULL, content_type |-> NULL, content_length |-> Missing,
     card_type |-> NULL, front_image |-> NoImage, back_image |-> NoImage, id |-> 0]

\* an object key, `${prefix}${kind}/${uploadId}${extension}`, and a presigned URL
NoKey == <<>>
NoUrl == <<>>

\* what a handler awaits from the job store, the object store or the engine
NoOutcome == [error |-> NULL, jobId |-> 0, status |-> NULL, result |-> NULL, jobError |-> NULL]

\* the response body beyond { api_version, request_id, error_code, error_message }
NoPayload ==
    [job_id |-> 0, status |-> NULL, result |-> NULL, error |-> NULL,
     upload_id |-> 0, put_url |-> NoUrl, get_url |-> NoUrl, object_url |-> NoKey]

\* what a poll reported of a job: nothing yet, or a terminal state
NoObs == [status |-> NULL, result |-> NULL, error |-> NULL]

\* req.requestId: not set, the caller's X-Request-Id, or a random UUID (the
\* n-th drawn); the engine names its answers by a digest of the image
NoRid == [t |-> "null", s |-> "", n |-> 0]
Given(s) == [t |-> "given", s |-> s, n |-> 0]
Uuid(n) == [t |-> "uuid", s |-> "", n |-> n]
Digest(data) == [t |-> "digest", s |-> data, n |-> 0]

IdleWork ==
    [pc |-> "idle", route |-> NULL, body |-> NoBody, tenantId |-> NULL,
     hooked |-> FALSE, requestId |-> NoRid, xRequestId |-> NoRid,
     outcome |-> NoOutcome, objectKey |-> NoKey, putUrl |-> NoUrl,
     statusCode |-> 0, error_code |-> NULL, error_message |-> NULL, payload |-> NoPayload,
     \* history of this request, read by no code:
     seenBefore |-> NoObs, afterReturn |-> FALSE, writeIssued |-> FALSE,
     signCalls |-> 0, engineCalls |-> 0, timer |-> "none", incoming |-> NULL]

----------------------------------------------------------------------------
(* The gateway's specification.                                            *)

Init ==
    /\ env \in { MkEnv(a, rl, NULL) : a \in AuthEnvs, rl \in Limits }
               \cup { MkEnv(a, rl, NULL) : a \in OpenEnvs, rl \in NoLimits }
               \cup { MkEnv(a, [kind |-> "unset", n |-> 0], NULL) : a \in AuthEnvs }
    /\ nowMinute = 0
    /\ api_keys = {}
    /\ rateState = EmptyMap
    /\ reqs = [r \in Slots |-> IdleReq]
    /\ rlHistory = EmptyMap
    /\ logRecords = {}
    /\ usage_events = {}
    /\ jobs = <<>>
    /\ tasks = <<>>
    /\ jobWrites = <<>>
    /\ work = [r \in Slots |-> IdleWork]
    /\ polled = <<>>
    /\ signed = {}
    /\ uuids = 0

Next ==
    \/ \E r \in Slots, url \in Urls, h \in Headers : Receive(r, url, h) /\ UNCHANGED work
    \/ \E r \in Slots : StoreLookup(r)
    \/ \E r \in Slots : AuthResume(r)
    \/ \E r \in Slots : Handler(r)
    \/ \E r \in Slots : OnResponse(r)
    \/ \E k \in ProvisionedKeys : Provision(k)
    \/ \E k \in ProvisionedKeys : Revoke(k)
    \/ Tick

Spec == Init /\ [][Next]_vars

\* Tenants with several keys.  The credential store holds keys 'a' and 'b'
\* of tenant T1 and key 'c' of tenant T2; or the allow-list holds 'a' and 'b'.
TenantRows ==
    { [id |-> "K1", tenant_id |-> "T1", key_hash |-> hashApiKey("a"), revoked_at |-> NULL],
      [id |-> "K2", tenant_id |-> "T1", key_hash |-> hashApiKey("b"), revoked_at |-> NULL],
      [id |-> "K3", tenant_id |-> "T2", key_hash |-> hashApiKey("c"), revoked_at |-> NULL] }

TenantEnvs ==
    { MkEnv(a, rl, NULL) :
        a \in { e \in AuthEnvs : (e.SUPABASE_SERVICE_ROLE_KEY = "svc") # (e.PREGRADE_API_KEYS # <<>>) },
        rl \in Limits }

\* X-API-Key: absent, ' a ', 'b', 'c'
TenantHeaders == { h \in Headers : ~h.isArray /\ (h.vals = <<>> \/ h.vals[1] \in {" a ", "b", "c"}) }

TenantInit ==
    /\ env \in TenantEnvs
    /\ nowMinute = 0
    /\ api_keys = IF useSupabaseAuth THEN TenantRows ELSE {}
    /\ rateState = EmptyMap
    /\ reqs = [r \in Slots |-> IdleReq]
    /\ rlHistory = EmptyMap
    /\ logRecords = {}
    /\ usage_events = {}
    /\ jobs = <<>>
    /\ tasks = <<>>
    /\ jobWrites = <<>>
    /\ work = [r \in Slots |-> IdleWork]
    /\ polled = <<>>
    /\ signed = {}
    /\ uuids = 0

TenantNext ==
    \/ \E r \in Slots, url \in Urls, h \in TenantHeaders : Receive(r, url, h) /\ UNCHANGED work
    \/ \E r \in Slots : StoreLookup(r)
    \/ \E r \in Slots : AuthResume(r)
    \/ \E r \in Slots : Handler(r)
    \/ \E r \in Slots : OnResponse(r)
    \/ Tick

TenantSpec == TenantInit /\ [][TenantNext]_vars

----------------------------------------------------------------------------
(* jobs.ts and pythonProxy.ts: the asynchronous job state machine.         *)

\* getSupabase() returns a client
JobsConfigured == NonBlank(env.SUPABASE_URL) /\ NonBlank(env.SUPABASE_SERVICE_ROLE_KEY)

Payloads == {"front1"}
JobTenants == {NULL, "T1"}
Terminal == {"completed", "failed"}

\* a terminal write is among the writes ws
HasTerminal(ws) == \E i \in DOMAIN ws : ws[i] \in Terminal

\* insert({ tenant_id, status: 'pending', request_payload }): the columns the
\* insert leaves out take the table's default, null
NewJob(tenantId, requestPayload) ==
    [tenant_id |-> tenantId, status |-> "pending", request_payload |-> requestPayload,
     result |-> NULL, error |-> NULL, completed_at |-> NULL]

\* an update that also clears the payload and the owner of the row
Updated_ClearsPayload(row, updates) ==
    [f \in DOMAIN row |-> IF f \in DOMAIN updates THEN updates[f]
                          ELSE IF f \in {"request_payload", "tenant_id"} THEN NULL
                          ELSE row[f]]

\* update(updates).eq('id', jobId): the columns named in updates are written
Updated(row, updates) ==
    [f \in DOMAIN row |-> IF f \in DOMAIN updates THEN updates[f] ELSE row[f]]

\* Mutant: the .eq('id', jobId) filter is missing, every row is written.
updateJob_AllRows(jobId, updates, stored) ==
    /\ jobs' = IF stored /\ JobsConfigured
               THEN [i \in DOMAIN jobs |-> Updated(jobs[i], updates)]
               ELSE jobs
    /\ jobWrites' = [jobWrites EXCEPT ![jobId] = Append(jobWrites[jobId], updates.status)]

\* updateJob: one UPDATE statement; its outcome is not looked at, so a write
\* the store refuses is lost without a trace.
updateJob(jobId, updates, stored) ==
    /\ jobs' = IF stored /\ JobsConfigured
               THEN [jobs EXCEPT ![jobId] = Updated(jobs[jobId], updates)]
               ELSE jobs
    /\ jobWrites' = [jobWrites EXCEPT ![jobId] = Append(jobWrites[jobId], updates.status)]

\* new Date().toISOString()
NowIso == "ts"

\* What proxyAnalyzeToPython makes of the engine's behaviour.  A success
\* status carries the contract's body { api_version, request_id, result } or
\* a body that is no JSON; an error status carries an error envelope or any
\* text; the call may fail in transport or be aborted by the timeout.
EngineBehaviours == {"ok", "ok_not_json", "error_envelope", "error_text", "transport", "timeout"}

proxyAnalyzeToPython(behaviour) ==
    CASE behaviour = "ok"             -> [threw |-> FALSE, result |-> "result", message |-> NULL]
      \* the contract's body with gatekeeper_result.accepted = false
      [] behaviour = "ok_rejected"    -> [threw |-> FALSE, result |-> "result_rejected", message |-> NULL]
      [] behaviour = "ok_not_json"    -> [threw |-> TRUE, result |-> NULL, message |-> "Unexpected token"]
      \* the Error thrown inside the try is caught by its own catch, which
      \* throws 'Python proxy error' in its place
      [] behaviour = "error_envelope" -> [threw |-> TRUE, result |-> NULL, message |-> "Python proxy error"]
      [] behaviour = "error_text"     -> [threw |-> TRUE, result |-> NULL, message |-> "Python proxy error"]
      [] behaviour = "transport"      -> [threw |-> TRUE, result |-> NULL, message |-> "fetch failed"]
      [] behaviour = "timeout"        -> [threw |-> TRUE, result |-> NULL, message |-> "This operation was aborted"]

NoResp == [threw |-> FALSE, result |-> NULL, message |-> NULL]

\* POST /v1/jobs after validation: createJob, then runJobInBackground.
CreateJob(tenantId, requestPayload) ==
    /\ Len(jobs) < MaxJobs
    /\ \E inserted \in BOOLEAN :
         IF JobsConfigured /\ inserted
         THEN /\ jobs' = Append(jobs, NewJob(tenantId, requestPayload))
              /\ tasks' = Append(tasks, [pc |-> "scheduled", resp |-> NoResp, calls |-> 0])
              /\ jobWrites' = Append(jobWrites, <<>>)
         ELSE UNCHANGED <<jobs, tasks, jobWrites>>
    /\ UNCHANGED <<env, nowMinute, api_keys, rateState, reqs, rlHistory, apiVars>> /\ Quiet

\* The setImmediate callback up to the answer of its select (lines 90-95).
TaskStart(j) ==
    /\ tasks[j].pc = "scheduled"
    /\ \E found \in BOOLEAN :
         tasks' = [tasks EXCEPT ![j].pc =
                     IF JobsConfigured /\ found /\ jobs[j].request_payload # NULL
                     THEN "mark" ELSE "done"]
    /\ UNCHANGED <<env, nowMinute, api_keys, rateState, reqs, rlHistory, jobs, jobWrites, apiVars>>
    /\ Quiet

\* await updateJob(jobId, { status: 'processing' }) (line 97)
TaskMarkProcessing(j) ==
    /\ tasks[j].pc = "mark"
    /\ \E stored \in BOOLEAN : updateJob(j, [status |-> "processing"], stored)
    /\ tasks' = [tasks EXCEPT ![j].pc = "run"]
    /\ UNCHANGED <<env, nowMinute, api_keys, rateState, reqs, rlHistory, apiVars>> /\ Quiet

\* a task that calls the engine's client without a base URL and leaves the
\* failure to its catch
TaskNoEngine_CallsAnyway(j) ==
    /\ tasks[j].pc = "run"
    /\ ~NonBlank(env.PREGRADE_PYTHON_BASE_URL)
    /\ tasks' = [tasks EXCEPT ![j].pc = "called",
                              ![j].resp = [NoResp EXCEPT !.threw = TRUE, !.message = "fetch failed"],
                              ![j].calls = tasks[j].calls + 1]
    /\ UNCHANGED <<env, nowMinute, api_keys, rateState, reqs, rlHistory, jobs, jobWrites, apiVars>>
    /\ Quiet

\* if (!baseUrl) { await updateJob(failed); return; } (lines 99-109)
TaskNoEngine(j) ==
    /\ tasks[j].pc = "run"
    /\ ~NonBlank(env.PREGRADE_PYTHON_BASE_URL)
    /\ \E stored \in BOOLEAN :
         updateJob(j, [status |-> "failed", error |-> "Python service not configured.",
                       completed_at |-> NowIso], stored)
    /\ tasks' = [tasks EXCEPT ![j].pc = "done"]
    /\ UNCHANGED <<env, nowMinute, api_keys, rateState, reqs, rlHistory, apiVars>> /\ Quiet

\* await proxyAnalyzeToPython(...) (lines 111-113)
TaskCallEngine(j) ==
    /\ tasks[j].pc = "run"
    /\ NonBlank(env.PREGRADE_PYTHON_BASE_URL)
    /\ \E b \in EngineBehaviours :
         tasks' = [tasks EXCEPT ![j].pc = "called", ![j].resp = proxyAnalyzeToPython(b),
                                ![j].calls = tasks[j].calls + 1]
    /\ UNCHANGED <<env, nowMinute, api_keys, rateState, reqs, rlHistory, jobs, jobWrites, apiVars>>
    /\ Quiet

\* Mutant: the catch forgets completed_at.
TerminalUpdates_NoCompletedAt(resp) ==
    IF ~resp.threw
    THEN [status |-> "completed", result |-> resp.result, completed_at |-> NowIso]
    ELSE [status |-> "failed", error |-> resp.message]

\* the updates of the terminal write: lines 114-118, or the catch, lines 119-125
TerminalUpdates(resp) ==
    IF ~resp.threw
    THEN [status |-> "completed", result |-> resp.result, completed_at |-> NowIso]
    ELSE [status |-> "failed", error |-> resp.message, completed_at |-> NowIso]

\* a task whose catch is entered by a refused `completed` write as well,
\* and writes `failed` after it
TaskFinish_CatchesOwnWrite(j) ==
    /\ tasks[j].pc = "called"
    /\ \E stored \in BOOLEAN :
         IF ~tasks[j].resp.threw /\ ~stored
         THEN /\ jobs' = jobs
              /\ jobWrites' = [jobWrites EXCEPT ![j] =
                                 Append(Append(jobWrites[j], "completed"), "failed")]
         ELSE updateJob(j, TerminalUpdates(tasks[j].resp), stored)
    /\ tasks' = [tasks EXCEPT ![j].pc = "done"]
    /\ UNCHANGED <<env, nowMinute, api_keys, rateState, reqs, rlHistory, apiVars>> /\ Quiet

\* The terminal write after the engine call.  updateJob does not throw (the
\* store client returns its errors), so the catch is entered by the proxy's
\* exceptions alone.
TaskFinish(j) ==
    /\ tasks[j].pc = "called"
    /\ \E stored \in BOOLEAN : updateJob(j, TerminalUpdates(tasks[j].resp), stored)
    /\ tasks' = [tasks EXCEPT ![j].pc = "done"]
    /\ UNCHANGED <<env, nowMinute, api_keys, rateState, reqs, rlHistory, apiVars>> /\ Quiet

JobEnvs ==
    { a \in AuthEnvs : a.PREGRADE_API_KEYS = <<>> /\ a.SUPABASE_SERVICE_ROLE_KEY \in {NULL, "svc"} }

JobInit ==
    /\ env \in { MkEnv(a, [kind |-> "unset", n |-> 0], py) :
                   a \in JobEnvs, py \in {NULL, " ", "http://engine"} }
    /\ nowMinute = 0
    /\ api_keys = {}
    /\ rateState = EmptyMap
    /\ reqs = [r \in Slots |-> IdleReq]
    /\ rlHistory = EmptyMap
    /\ logRecords = {}
    /\ usage_events = {}
    /\ jobs = <<>>
    /\ tasks = <<>>
    /\ jobWrites = <<>>
    /\ work = [r \in Slots |-> IdleWork]
    /\ polled = <<>>
    /\ signed = {}
    /\ uuids = 0

JobNext ==
    \/ \E t \in JobTenants, p \in Payloads : CreateJob(t, p)
    \/ \E j \in DOMAIN tasks : TaskStart(j)
    \/ \E j \in DOMAIN tasks : TaskMarkProcessing(j)
    \/ \E j \in DOMAIN tasks : TaskNoEngine(j)
    \/ \E j \in DOMAIN tasks : TaskCallEngine(j)
    \/ \E j \in DOMAIN tasks : TaskFinish(j)

JobSpec == JobInit /\ [][JobNext]_vars

----------------------------------------------------------------------------
(* The background task with the engine call in its steps, over a job store *)
(* that accepts what it is asked.                                          *)

\* fetch(url, { signal }) has been issued and the abort timer is armed
\* (pythonProxy.ts, lines 17-28)
TaskSendsToEngine(j) ==
    /\ tasks[j].pc = "run"
    /\ NonBlank(env.PREGRADE_PYTHON_BASE_URL)
    /\ tasks' = [tasks EXCEPT ![j].pc = "calling", ![j].calls = tasks[j].calls + 1]
    /\ UNCHANGED <<env, nowMinute, api_keys, rateState, reqs, rlHistory, jobs, jobWrites, apiVars>>
    /\ Quiet

\* the engine answers, or the connection fails, before the timer fires
TaskEngineAnswers(j) ==
    /\ tasks[j].pc = "calling"
    /\ \E b \in EngineBehaviours \ {"timeout"} :
         tasks' = [tasks EXCEPT ![j].pc = "called", ![j].resp = proxyAnalyzeToPython(b)]
    /\ UNCHANGED <<env, nowMinute, api_keys, rateState, reqs, rlHistory, jobs, jobWrites, apiVars>>
    /\ Quiet

\* a proxy that arms no timer
TaskTimerFires_NoTimer(j) ==
    /\ tasks[j].pc = "calling"
    /\ FALSE
    /\ UNCHANGED vars

\* setTimeout(() => controller.abort(), cfg.timeoutMs) fires while the fetch
\* or the read of the body is pending: the await rejects
TaskTimerFires(j) ==
    /\ tasks[j].pc = "calling"
    /\ tasks' = [tasks EXCEPT ![j].pc = "called", ![j].resp = proxyAnalyzeToPython("timeout")]
    /\ UNCHANGED <<env, nowMinute, api_keys, rateState, reqs, rlHistory, jobs, jobWrites, apiVars>>
    /\ Quiet

\* the store answers the step of task j: the select finds the row, and a
\* write is in the row when the step ends
StoreAccepts(j) ==
    /\ tasks[j].pc = "scheduled" => tasks'[j].pc = "mark"
    /\ jobWrites'[j] # jobWrites[j] => jobs'[j].status = jobWrites'[j][Len(jobWrites'[j])]

\* the steps of task j that the event loop runs once they can run: every
\* continuation of the task and the timer, not the engine's answer
TaskRuns(j) ==
    /\ j \in DOMAIN tasks
    /\ \/ TaskStart(j)
       \/ TaskMarkProcessing(j)
       \/ TaskNoEngine(j)
       \/ TaskSendsToEngine(j)
       \/ TaskTimerFires(j)
       \/ TaskFinish(j)
    /\ StoreAccepts(j)

JobLiveNext ==
    \/ \E t \in JobTenants, p \in Payloads : CreateJob(t, p)
    \/ \E j \in DOMAIN tasks : TaskStart(j) /\ StoreAccepts(j)
    \/ \E j \in DOMAIN tasks : TaskMarkProcessing(j) /\ StoreAccepts(j)
    \/ \E j \in DOMAIN tasks : TaskNoEngine(j) /\ StoreAccepts(j)
    \/ \E j \in DOMAIN tasks : TaskSendsToEngine(j)
    \/ \E j \in DOMAIN tasks : TaskEngineAnswers(j)
    \/ \E j \in DOMAIN tasks : TaskTimerFires(j)
    \/ \E j \in DOMAIN tasks : TaskFinish(j) /\ StoreAccepts(j)

JobLiveSpec ==
    /\ JobInit
    /\ [][JobLiveNext]_vars
    /\ \A j \in 1..MaxJobs : WF_vars(TaskRuns(j))

----------------------------------------------------------------------------
(* index.ts: from the arrival of a request to its route handler.           *)

Routes == {"uploads", "analyze", "grade", "jobs", "job"}

\* an image field against { type: 'object', required: ['encoding', 'data'],
\* encoding: { enum: encodings }, data: { type: 'string' } }
ImageSchemaAccepts(img, encodings) ==
    img.present /\ img.encoding \in encodings /\ img.data # NULL

\* The validation Fastify runs on `schema.body` / `schema.params` of the
\* route before any preHandler hook: CreateUploadRequestSchema,
\* AnalyzeRequestSchema (also the body of POST /v1/jobs), GradeRequestSchema,
\* and { id: { type: 'string', format: 'uuid' } }.
SchemaAccepts(route, b) ==
    CASE route = "uploads" ->
             /\ b.isObject
             /\ b.kind \in {"front_image", "back_image"}
             /\ b.content_type # NULL
             /\ b.content_length.t = "number"
      [] route \in {"analyze", "jobs"} ->
             /\ b.isObject
             /\ b.card_type \in {"pokemon", "trainer", "energy"}
             /\ ImageSchemaAccepts(b.front_image, {"base64", "url"})
             /\ (b.back_image.present => ImageSchemaAccepts(b.back_image, {"base64", "url"}))
      [] route = "grade" ->
             /\ b.isObject
             /\ b.card_type = "pokemon"
             /\ ImageSchemaAccepts(b.front_image, {"base64"})
             /\ ImageSchemaAccepts(b.back_image, {"base64"})
      [] route = "job" -> b.id # 0
      \* a route with no schema for its request, and the 404 handler
      [] OTHER -> TRUE

\* the codes of contracts.ts
ErrorCode ==
    {"MISSING_API_KEY", "INVALID_API_KEY", "RATE_LIMIT_EXCEEDED", "INVALID_JSON",
     "INVALID_REQUEST_FORMAT", "MISSING_REQUIRED_FIELD", "UNSUPPORTED_CARD_TYPE",
     "ROUTE_NOT_FOUND", "NOT_IMPLEMENTED", "INTERNAL_ERROR"}

\* reply.code(status).send(err) in a handler
ErrorReply(w, status, code, message) ==
    [w EXCEPT !.pc = "sent", !.statusCode = status, !.error_code = code,
              !.error_message = message]

\* Mutant: no error handler is set, Fastify answers a body the schema
\* refuses with its own 400 and its own code.
ErrorHandler_FastifyDefault(w) == ErrorReply(w, 400, "FST_ERR_VALIDATION", "body must be object")

\* app.setErrorHandler: whatever the error, 500 INTERNAL_ERROR 'Internal error.'
ErrorHandler(w) == ErrorReply(w, 500, "INTERNAL_ERROR", "Internal error.")

\* the request was not refused by its route's schema
PassedSchema(w) == SchemaAccepts(w.route, w.body)

\* requests in flight that may still insert a job
JobsInFlight ==
    Cardinality({ q \in Slots : work[q].route = "jobs" /\ work[q].pc \in {"handler", "insert"} })

\* requests in flight that may still draw an upload id
UploadsInFlight ==
    Cardinality({ q \in Slots : work[q].route = "uploads" /\ work[q].pc = "handler" })

\* A request arrives with the tenant the preHandler attaches to it (null
\* when it attaches none): a body the route's schema refuses goes to the
\* error handler and reaches neither hook nor handler.
Admit(r, route, b, tenantId) ==
    /\ work[r].pc = "idle"
    /\ \A q \in Slots : q < r => work[q].pc # "idle"
    /\ route = "jobs" => Len(jobs) + JobsInFlight < MaxApiJobs
    /\ route = "uploads" => uuids + UploadsInFlight < MaxUploads
    /\ LET w == [work[r] EXCEPT !.route = route, !.body = b] IN
       work' = [work EXCEPT ![r] =
                  IF ~SchemaAccepts(route, b) THEN ErrorHandler(w)
                  ELSE [w EXCEPT !.pc = "handler", !.tenantId = tenantId]]
    /\ UNCHANGED <<env, nowMinute, api_keys, rateState, reqs, rlHistory, jobVars,
                   polled, signed, uuids>>
    /\ Quiet

\* The response has left; the execution context is free again.
Respond(r) ==
    /\ work[r].pc = "sent"
    /\ work' = [work EXCEPT ![r] = IdleWork]
    /\ UNCHANGED <<env, nowMinute, api_keys, rateState, reqs, rlHistory, jobVars,
                   polled, signed, uuids>>
    /\ Quiet

----------------------------------------------------------------------------
(* index.ts and jobs.ts: POST /v1/jobs and GET /v1/jobs/:id.               *)

\* The handler's own checks of an analyze body (also POST /v1/jobs): the
\* reply of the first check that fails, or a reply with status 0.
AnalyzeBodyCheck(w) ==
    LET b == w.body
        fi == b.front_image
    IN  IF ~b.isObject
        THEN ErrorReply(w, 400, "INVALID_REQUEST_FORMAT", "Request body must be a JSON object.")
        ELSE IF b.card_type \notin {"pokemon", "trainer", "energy"}
        THEN ErrorReply(w, 400, "UNSUPPORTED_CARD_TYPE",
                        "Only card_type in ['pokemon','trainer','energy'] is supported.")
        ELSE IF \/ ~fi.present
                \/ fi.encoding \notin {"base64", "url"}
                \/ fi.data = NULL
                \/ Trim(fi.data) = ""
        THEN ErrorReply(w, 400, "MISSING_REQUIRED_FIELD",
                        "Missing required field: front_image (encoding base64 or url, non-empty data).")
        ELSE w

\* outcome.error.includes('not configured'), on the messages of the model
IncludesNotConfigured(message) ==
    message \in {"Jobs not configured. Set SUPABASE_URL and SUPABASE_SERVICE_ROLE_KEY.",
                 "Jobs not configured."}

\* POST /v1/jobs, `if ('error' in outcome)`: 501 when the message says
\* 'not configured', 500 otherwise
CreateJobErrorReply(w, message) ==
    IF IncludesNotConfigured(message)
    THEN ErrorReply(w, 501, "NOT_IMPLEMENTED", message)
    ELSE ErrorReply(w, 500, "INTERNAL_ERROR", message)

\* the request_payload column: the body, named by the image it carries
PayloadOf(b) == b.front_image.data

\* a handler that calls createJob without its checks of the body
PostJobs_SkipsChecks(r) ==
    /\ work[r].pc = "handler" /\ work[r].route = "jobs"
    /\ LET w == work[r]
       IN  work' = [work EXCEPT ![r] =
                      IF ~JobsConfigured
                      THEN CreateJobErrorReply(w, "Jobs not configured. Set SUPABASE_URL and SUPABASE_SERVICE_ROLE_KEY.")
                      ELSE [w EXCEPT !.pc = "insert"]]
    /\ UNCHANGED <<env, nowMinute, api_keys, rateState, reqs, rlHistory, jobVars,
                   polled, signed, uuids>>
    /\ Quiet

\* POST /v1/jobs up to the insert of createJob (index.ts 1066-1110, jobs.ts
\* 24-38); without a job store createJob returns its error at once.
PostJobs(r) ==
    /\ work[r].pc = "handler" /\ work[r].route = "jobs"
    /\ LET w == work[r]
           checked == AnalyzeBodyCheck(w)
       IN  work' = [work EXCEPT ![r] =
                      IF checked.statusCode # 0 THEN checked
                      ELSE IF ~JobsConfigured
                      THEN CreateJobErrorReply(w, "Jobs not configured. Set SUPABASE_URL and SUPABASE_SERVICE_ROLE_KEY.")
                      ELSE [w EXCEPT !.pc = "insert"]]
    /\ UNCHANGED <<env, nowMinute, api_keys, rateState, reqs, rlHistory, jobVars,
                   polled, signed, uuids>>
    /\ Quiet

\* Mutant: the `error || !data` test is missing, an id is returned although
\* no row was inserted.
createJobResult_IgnoresError(ans) == [NoOutcome EXCEPT !.jobId = ans.id]

\* createJob after the insert (jobs.ts 40-44), given the store's { data, error }
createJobResult(ans) ==
    IF ans.error # NULL \/ ~ans.data
    THEN [NoOutcome EXCEPT !.error = IF ans.error # NULL THEN ans.error ELSE "Failed to create job."]
    ELSE [NoOutcome EXCEPT !.jobId = ans.id]

\* The job store runs the insert of createJob, or refuses it.  The row's id
\* is its number; the row has no task until runJobInBackground is called.
JobInsert(r) ==
    /\ work[r].pc = "insert"
    /\ \E inserted \in BOOLEAN :
         LET id == Len(jobs) + 1 IN
         IF inserted
         THEN /\ jobs' = Append(jobs, NewJob(work[r].tenantId, PayloadOf(work[r].body)))
              /\ tasks' = Append(tasks, [pc |-> "unscheduled", resp |-> NoResp, calls |-> 0])
              /\ jobWrites' = Append(jobWrites, <<>>)
              /\ polled' = Append(polled, NoObs)
              /\ work' = [work EXCEPT ![r].pc = "created",
                            ![r].outcome = createJobResult([error |-> NULL, data |-> TRUE, id |-> id])]
         ELSE /\ work' = [work EXCEPT ![r].pc = "created",
                            ![r].outcome = createJobResult([error |-> "insert failed", data |-> FALSE, id |-> id])]
              /\ UNCHANGED <<jobs, tasks, jobWrites, polled>>
    /\ UNCHANGED <<env, nowMinute, api_keys, rateState, reqs, rlHistory, signed, uuids>>
    /\ Quiet

\* POST /v1/jobs after `await createJob` (index.ts 1112-1131):
\* runJobInBackground(jobId) queues the task with setImmediate, and the
\* reply is sent in the same turn.  A task queued for an id with no row ends
\* at its select (jobs.ts 94-95).
PostJobsResume(r) ==
    /\ work[r].pc = "created"
    /\ LET w == work[r]
           jobId == w.outcome.jobId
       IN  IF w.outcome.error # NULL
           THEN /\ work' = [work EXCEPT ![r] = CreateJobErrorReply(w, w.outcome.error)]
                /\ UNCHANGED tasks
           ELSE /\ tasks' = IF jobId \in DOMAIN tasks
                            THEN [tasks EXCEPT ![jobId].pc = "scheduled"]
                            ELSE tasks
                /\ work' = [work EXCEPT ![r] =
                              [w EXCEPT !.pc = "sent", !.statusCode = 200,
                                        !.payload = [NoPayload EXCEPT !.job_id = jobId,
                                                                      !.status = "pending"]]]
    /\ UNCHANGED <<env, nowMinute, api_keys, rateState, reqs, rlHistory, jobs, jobWrites,
                   polled, signed, uuids>>
    /\ Quiet

\* a job id that some response of POST /v1/jobs has carried
Returned(jobId) == jobId \in DOMAIN tasks /\ tasks[jobId].pc # "unscheduled"

\* GET /v1/jobs/:id up to the select of getJob (index.ts 1149-1153, jobs.ts
\* 54-65); without a job store getJob returns its error at once, which the
\* handler answers as it answers every error that is not 'Job not found.'
GetJobById(r) ==
    /\ work[r].pc = "handler" /\ work[r].route = "job"
    /\ LET w == work[r]
           jobId == w.body.id
       IN  work' = [work EXCEPT ![r] =
                      IF ~JobsConfigured
                      THEN ErrorReply(w, 500, "INTERNAL_ERROR", "Jobs not configured.")
                      ELSE [w EXCEPT !.pc = "query",
                                     !.seenBefore = IF jobId \in DOMAIN polled THEN polled[jobId] ELSE NoObs,
                                     !.afterReturn = Returned(jobId)]]
    /\ UNCHANGED <<env, nowMinute, api_keys, rateState, reqs, rlHistory, jobVars,
                   polled, signed, uuids>>
    /\ Quiet

\* Mutant: the tenant filter is missing, every caller matches every job.
JobRows_NoTenantFilter(jobId, tenantId) == { j \in DOMAIN jobs : j = jobId }

\* Mutant: the .eq('id', jobId) filter is missing, the first row the caller
\* may see is returned.
JobRows_NoIdFilter(jobId, tenantId) ==
    { j \in DOMAIN jobs :
        \/ tenantId = NULL \/ tenantId = "anonymous"
        \/ jobs[j].tenant_id = NULL
        \/ jobs[j].tenant_id = tenantId }

\* .eq('id', jobId).limit(1), and for a tenant other than null / 'anonymous'
\* .or(`tenant_id.is.null,tenant_id.eq.${tenantId}`)
JobRows(jobId, tenantId) ==
    { j \in DOMAIN jobs :
        /\ j = jobId
        /\ \/ tenantId = NULL \/ tenantId = "anonymous"
           \/ jobs[j].tenant_id = NULL
           \/ jobs[j].tenant_id = tenantId }

\* getJob after the select (jobs.ts 65-76), given the store's answer
getJobResult(err, rows) ==
    IF err THEN [NoOutcome EXCEPT !.error = "db error"]
    ELSE IF rows = {} THEN [NoOutcome EXCEPT !.error = "Job not found."]
    ELSE LET j == CHOOSE j \in rows : TRUE IN
         [NoOutcome EXCEPT !.jobId = j, !.status = jobs[j].status,
                           !.result = jobs[j].result, !.jobError = jobs[j].error]

\* The job store answers the select of getJob, or fails.
JobSelect(r) ==
    /\ work[r].pc = "query"
    /\ \E err \in BOOLEAN :
         LET jobId == work[r].body.id IN
         work' = [work EXCEPT ![r].pc = "answered",
                              ![r].outcome = getJobResult(err, JobRows(jobId, work[r].tenantId)),
                              ![r].writeIssued = jobId \in DOMAIN jobWrites /\ HasTerminal(jobWrites[jobId])]
    /\ UNCHANGED <<env, nowMinute, api_keys, rateState, reqs, rlHistory, jobVars,
                   polled, signed, uuids>>
    /\ Quiet

\* GET /v1/jobs/:id after `await getJob` (index.ts 1155-1176): the job's
\* state, or an error envelope whose error_code is INTERNAL_ERROR, sent
\* with 404 for 'Job not found.' and with 500 otherwise.
GetJobReply(r) ==
    /\ work[r].pc = "answered"
    /\ LET w == work[r]
           o == w.outcome
       IN  IF o.error = NULL
           THEN /\ work' = [work EXCEPT ![r] =
                              [w EXCEPT !.pc = "sent", !.statusCode = 200,
                                        !.payload = [NoPayload EXCEPT !.job_id = w.body.id,
                                                                      !.status = o.status,
                                                                      !.result = o.result,
                                                                      !.error = o.jobError]]]
                /\ polled' = IF o.status \in Terminal
                             THEN [polled EXCEPT ![o.jobId] =
                                     [status |-> o.status, result |-> o.result, error |-> o.jobError]]
                             ELSE polled
           ELSE /\ work' = [work EXCEPT ![r] =
                              ErrorReply(w, IF o.error = "Job not found." THEN 404 ELSE 500,
                                         "INTERNAL_ERROR", o.error)]
                /\ UNCHANGED polled
    /\ UNCHANGED <<env, nowMinute, api_keys, rateState, reqs, rlHistory, jobVars, signed, uuids>>
    /\ Quiet

\* The bodies of POST /v1/jobs: a pokemon card with an image; an image whose
\* data is blank; a card type the schema does not list.
JobBodies ==
    { [NoBody EXCEPT !.card_type = "pokemon", !.front_image = Image("base64", "front1")],
      [NoBody EXCEPT !.card_type = "trainer", !.front_image = Image("url", " ")],
      [NoBody EXCEPT !.card_type = "yugioh", !.front_image = Image("base64", "front1")] }

\* The :id of GET /v1/jobs/:id: 'abc' (no uuid), the uuids of the jobs, and
\* a uuid no job has.
JobIds == 0..(MaxApiJobs + 1)

PollTenants == {NULL, "anonymous", "T1", "T2"}

\* the job store with and without the engine, and no job store
JobApiEnvs ==
    { MkEnv(a, [kind |-> "unset", n |-> 0], py) :
        a \in { e \in JobEnvs : e.SUPABASE_SERVICE_ROLE_KEY = "svc" }, py \in {NULL, "http://engine"} }
    \cup { MkEnv(a, [kind |-> "unset", n |-> 0], "http://engine") :
              a \in { e \in JobEnvs : e.SUPABASE_URL = NULL } }

JobApiInit ==
    /\ env \in JobApiEnvs
    /\ nowMinute = 0
    /\ api_keys = {}
    /\ rateState = EmptyMap
    /\ reqs = [r \in Slots |-> IdleReq]
    /\ rlHistory = EmptyMap
    /\ logRecords = {}
    /\ usage_events = {}
    /\ jobs = <<>>
    /\ tasks = <<>>
    /\ jobWrites = <<>>
    /\ work = [r \in Slots |-> IdleWork]
    /\ polled = <<>>
    /\ signed = {}
    /\ uuids = 0

JobApiNext ==
    \/ \E r \in Slots, b \in JobBodies, t \in JobTenants : Admit(r, "jobs", b, t)
    \/ \E r \in Slots, id \in JobIds, t \in PollTenants :
          Admit(r, "job", [NoBody EXCEPT !.id = id], t)
    \/ \E r \in Slots : PostJobs(r)
    \/ \E r \in Slots : JobInsert(r)
    \/ \E r \in Slots : PostJobsResume(r)
    \/ \E r \in Slots : GetJobById(r)
    \/ \E r \in Slots : JobSelect(r)
    \/ \E r \in Slots : GetJobReply(r)
    \/ \E r \in Slots : Respond(r)
    \/ \E j \in DOMAIN tasks : TaskStart(j)
    \/ \E j \in DOMAIN tasks : TaskMarkProcessing(j)
    \/ \E j \in DOMAIN tasks : TaskNoEngine(j)
    \/ \E j \in DOMAIN tasks : TaskCallEngine(j)
    \/ \E j \in DOMAIN tasks : TaskFinish(j)

JobApiSpec == JobApiInit /\ [][JobApiNext]_vars

----------------------------------------------------------------------------
(* index.ts: POST /v1/uploads.                                             *)

\* process.env with the variables of the upload configuration
UploadEnv(e, bucket, region, awsRegion, prefix) ==
    [PREGRADE_UPLOADS_S3_BUCKET |-> bucket, PREGRADE_UPLOADS_S3_REGION |-> region,
     AWS_REGION |-> awsRegion, PREGRADE_UPLOADS_S3_PREFIX |-> prefix] @@ e

\* (process.env.X ?? dflt).trim()
EnvOr(v, dflt) == IF v # NULL THEN Trim(v) ELSE Trim(dflt)

UPLOADS_S3_BUCKET == EnvOr(env.PREGRADE_UPLOADS_S3_BUCKET, "")

UPLOADS_S3_REGION ==
    IF env.PREGRADE_UPLOADS_S3_REGION # NULL THEN Trim(env.PREGRADE_UPLOADS_S3_REGION)
    ELSE EnvOr(env.AWS_REGION, "")

UPLOADS_S3_PREFIX == EnvOr(env.PREGRADE_UPLOADS_S3_PREFIX, "pregrade/uploads/")

\* PREGRADE_UPLOADS_MAX_BYTES is left unset: the default, 12 MB
UPLOADS_MAX_BYTES == 12582912

ALLOWED_CONTENT_TYPES == {"image/jpeg", "image/png", "image/webp"}

uploadsConfigured == UPLOADS_S3_BUCKET # "" /\ UPLOADS_S3_REGION # ""

extensionForContentType(contentType) ==
    CASE contentType = "image/jpeg" -> ".jpg"
      [] contentType = "image/png"  -> ".png"
      [] contentType = "image/webp" -> ".webp"
      [] OTHER -> ""

\* `${UPLOADS_S3_PREFIX}${payload.kind}/${uploadId}${extension}`
ObjectKey(kind, uploadId, extension) == <<UPLOADS_S3_PREFIX, kind, "/", uploadId, extension>>

\* the part of an object key before the upload id
PrefixOfKey(key) == SubSeq(key, 1, 3)

\* The handler's checks of an upload body, in the handler's order: the
\* reply of the first check that fails, or a reply with status 0.
UploadBodyCheck(w) ==
    LET b == w.body IN
    IF ~b.isObject
    THEN ErrorReply(w, 400, "INVALID_REQUEST_FORMAT", "Request body must be a JSON object.")
    ELSE IF b.kind # "front_image" /\ b.kind # "back_image"
    THEN ErrorReply(w, 400, "MISSING_REQUIRED_FIELD",
                    "Missing/invalid required field: kind ('front_image'|'back_image').")
    ELSE IF b.content_type = NULL \/ b.content_type = ""
    THEN ErrorReply(w, 400, "MISSING_REQUIRED_FIELD", "Missing required field: content_type.")
    ELSE IF b.content_type \notin ALLOWED_CONTENT_TYPES
    THEN ErrorReply(w, 400, "INVALID_REQUEST_FORMAT", "Unsupported content_type.")
    ELSE IF b.content_length.t # "number" \/ b.content_length.n <= 0
    THEN ErrorReply(w, 400, "MISSING_REQUIRED_FIELD", "Missing required field: content_length.")
    ELSE IF b.content_length.n > UPLOADS_MAX_BYTES
    THEN ErrorReply(w, 400, "INVALID_REQUEST_FORMAT", "content_length exceeds maximum allowed size.")
    ELSE w

\* getSignedUrl(client, command, { expiresIn }) is called: the call is noted
SignCall(w, op) == [op |-> op, key |-> w.objectKey, tenant |-> w.tenantId, kind |-> w.body.kind]

\* the URL getSignedUrl returns for a command
SignedUrl(op, key) == <<op, UPLOADS_S3_BUCKET, key>>

\* POST /v1/uploads up to its first await (index.ts 753-846): the checks,
\* 501 without an object store, then the upload id, the object key, both
\* commands, and the call that signs the put command.
PostUploads(r) ==
    /\ work[r].pc = "handler" /\ work[r].route = "uploads"
    /\ LET w == work[r]
           checked == UploadBodyCheck(w)
           uploadId == uuids + 1
           keyed == [w EXCEPT !.pc = "sign_put",
                              !.payload = [NoPayload EXCEPT !.upload_id = uploadId],
                              !.objectKey = ObjectKey(w.body.kind, uploadId,
                                                      extensionForContentType(w.body.content_type)),
                              !.signCalls = 1]
       IN  IF checked.statusCode # 0
           THEN /\ work' = [work EXCEPT ![r] = checked]
                /\ UNCHANGED <<signed, uuids>>
           ELSE IF ~uploadsConfigured
           THEN /\ work' = [work EXCEPT ![r] =
                              ErrorReply(w, 501, "NOT_IMPLEMENTED", "Uploads not configured.")]
                /\ UNCHANGED <<signed, uuids>>
           ELSE /\ uuids' = uploadId
                /\ work' = [work EXCEPT ![r] = keyed]
                /\ signed' = signed \cup {SignCall(keyed, "PUT")}
    /\ UNCHANGED <<env, nowMinute, api_keys, rateState, reqs, rlHistory, jobVars, polled>>
    /\ Quiet

\* the catch around both calls (index.ts 848-857)
SignErrorReply(w) == ErrorReply(w, 500, "INTERNAL_ERROR", "Failed to generate upload URL.")

\* The put URL is there, or signing threw; the call that signs the get
\* command follows (index.ts 846-847).
SignPut(r) ==
    /\ work[r].pc = "sign_put"
    /\ \E threw \in BOOLEAN :
         LET w == work[r] IN
         IF threw
         THEN /\ work' = [work EXCEPT ![r] = SignErrorReply(w)]
              /\ UNCHANGED signed
         ELSE /\ work' = [work EXCEPT ![r] =
                            [w EXCEPT !.pc = "sign_get", !.putUrl = SignedUrl("PUT", w.objectKey),
                                      !.signCalls = 2]]
              /\ signed' = signed \cup {SignCall(w, "GET")}
    /\ UNCHANGED <<env, nowMinute, api_keys, rateState, reqs, rlHistory, jobVars, polled, uuids>>
    /\ Quiet

\* The get URL is there, or signing threw; the response (index.ts 847-869).
SignGet(r) ==
    /\ work[r].pc = "sign_get"
    /\ \E threw \in BOOLEAN :
         LET w == work[r] IN
         work' = [work EXCEPT ![r] =
                    IF threw THEN SignErrorReply(w)
                    ELSE [w EXCEPT !.pc = "sent", !.statusCode = 200,
                                   !.payload = [w.payload EXCEPT
                                                  !.put_url = w.putUrl,
                                                  !.get_url = SignedUrl("GET", w.objectKey),
                                                  !.object_url = w.objectKey]]]
    /\ UNCHANGED <<env, nowMinute, api_keys, rateState, reqs, rlHistory, jobVars, polled,
                   signed, uuids>>
    /\ Quiet

----------------------------------------------------------------------------
(* index.ts and pythonProxy.ts: POST /v1/analyze and POST /v1/grade.       *)

\* The checks of a grade body (index.ts 979-1020).
GradeBodyCheck(w) ==
    LET b == w.body
        bad(img) == ~img.present \/ img.encoding # "base64" \/ img.data = NULL \/ img.data = ""
    IN  IF ~b.isObject
        THEN ErrorReply(w, 400, "INVALID_REQUEST_FORMAT", "Request body must be a JSON object.")
        ELSE IF b.card_type # "pokemon"
        THEN ErrorReply(w, 400, "UNSUPPORTED_CARD_TYPE", "Only card_type='pokemon' is supported.")
        ELSE IF bad(b.front_image) \/ bad(b.back_image)
        THEN ErrorReply(w, 400, "MISSING_REQUIRED_FIELD",
                        "Missing required fields: front_image and back_image (both base64).")
        ELSE w

\* proxyGradeToPython: the code of proxyAnalyzeToPython, for /v1/grade
proxyGradeToPython(behaviour) == proxyAnalyzeToPython(behaviour)

\* the message of the catch of each handler
ProxyFailedMessage(route) ==
    IF route = "grade" THEN "Grade proxy failed." ELSE "Analyze proxy failed."

\* POST /v1/analyze and POST /v1/grade up to the fetch of the proxy (index.ts
\* 888-946 and 976-1036, pythonProxy.ts 14-28): the checks, 501 without a
\* base URL, then the timer is set and the request goes out.
PostProxy(r) ==
    /\ work[r].pc = "handler" /\ work[r].route \in {"analyze", "grade"}
    /\ LET w == work[r]
           checked == IF w.route = "grade" THEN GradeBodyCheck(w) ELSE AnalyzeBodyCheck(w)
       IN  work' = [work EXCEPT ![r] =
                      IF checked.statusCode # 0 THEN checked
                      ELSE IF ~NonBlank(env.PREGRADE_PYTHON_BASE_URL)
                      THEN ErrorReply(w, 501, "NOT_IMPLEMENTED",
                                      "Not configured. Set PREGRADE_PYTHON_BASE_URL to proxy to the Python service.")
                      ELSE [w EXCEPT !.pc = "fetch", !.timer = "set",
                                    !.engineCalls = w.engineCalls + 1]]
    /\ UNCHANGED <<env, nowMinute, api_keys, rateState, reqs, rlHistory, jobVars,
                   polled, signed, uuids>>
    /\ Quiet

\* finally { clearTimeout(t) }
TimerAfter(timer, resp) == "cleared"

\* Mutant: the catch answers with the message of the exception.
ProxyReply_LeaksMessage(w, resp) ==
    IF ~resp.threw
    THEN [w EXCEPT !.pc = "sent", !.statusCode = 200,
                   !.payload = [NoPayload EXCEPT !.result = resp.result]]
    ELSE ErrorReply(w, 500, "INTERNAL_ERROR", resp.message)

\* Mutant: a body whose gatekeeper rejected the image is answered as an error.
ProxyReply_RejectionIsError(w, resp) ==
    IF ~resp.threw /\ resp.result # "result_rejected"
    THEN [w EXCEPT !.pc = "sent", !.statusCode = 200,
                   !.payload = [NoPayload EXCEPT !.result = resp.result]]
    ELSE ErrorReply(w, 500, "INTERNAL_ERROR", ProxyFailedMessage(w.route))

\* a handler that calls the proxy a second time when the first call threw
ProxyReply_RetriesOnce(w, resp) ==
    IF ~resp.threw
    THEN [w EXCEPT !.pc = "sent", !.statusCode = 200,
                   !.payload = [NoPayload EXCEPT !.result = resp.result]]
    ELSE IF w.engineCalls < 2
    THEN [w EXCEPT !.pc = "fetch", !.engineCalls = w.engineCalls + 1]
    ELSE ErrorReply(w, 500, "INTERNAL_ERROR", ProxyFailedMessage(w.route))

\* what the handler sends once the proxy has returned or thrown (index.ts
\* 946-956): the engine's body with 200, or 500 INTERNAL_ERROR with the
\* handler's own message
ProxyReply(w, resp) ==
    IF ~resp.threw
    THEN [w EXCEPT !.pc = "sent", !.statusCode = 200,
                   !.payload = [NoPayload EXCEPT !.result = resp.result]]
    ELSE ErrorReply(w, 500, "INTERNAL_ERROR", ProxyFailedMessage(w.route))

\* `behaviour` is what the engine did; it is history of the request
ProxyEnds(w, behaviour) ==
    LET resp == IF w.route = "grade" THEN proxyGradeToPython(behaviour)
                ELSE proxyAnalyzeToPython(behaviour)
        replied == ProxyReply(w, resp)
    IN  [replied EXCEPT !.timer = TimerAfter(w.timer, resp),
                        !.outcome = [NoOutcome EXCEPT !.status = behaviour]]

\* what the engine may do with a call of /v1/analyze or /v1/grade: as for a
\* job, and a success whose gatekeeper rejected the image
SyncBehaviours == EngineBehaviours \cup {"ok_rejected"}

\* The engine answers, or the transport fails, before the timer fires; the
\* proxy returns or throws and the handler replies.
EngineAnswers(r) ==
    /\ work[r].pc = "fetch"
    /\ \E b \in SyncBehaviours \ {"timeout"} :
         work' = [work EXCEPT ![r] = ProxyEnds(work[r], b)]
    /\ UNCHANGED <<env, nowMinute, api_keys, rateState, reqs, rlHistory, jobVars,
                   polled, signed, uuids>>
    /\ Quiet

\* setTimeout(() => controller.abort(), cfg.timeoutMs) fires: the fetch is aborted.
TimerFires(r) ==
    /\ work[r].pc = "fetch"
    /\ work' = [work EXCEPT ![r].pc = "aborted", ![r].timer = "fired"]
    /\ UNCHANGED <<env, nowMinute, api_keys, rateState, reqs, rlHistory, jobVars,
                   polled, signed, uuids>>
    /\ Quiet

\* The aborted fetch rejects; the proxy throws and the handler replies.
AbortedFetchRejects(r) ==
    /\ work[r].pc = "aborted"
    /\ work' = [work EXCEPT ![r] = ProxyEnds(work[r], "timeout")]
    /\ UNCHANGED <<env, nowMinute, api_keys, rateState, reqs, rlHistory, jobVars,
                   polled, signed, uuids>>
    /\ Quiet

\* The bodies of POST /v1/uploads.
Upload(kind, contentType, contentLength) ==
    [NoBody EXCEPT !.kind = kind, !.content_type = contentType, !.content_length = contentLength]

UploadBodies ==
    { Upload("front_image", "image/jpeg", Num(5)),
      Upload("back_image", "image/png", Num(UPLOADS_MAX_BYTES)),
      Upload("selfie", "image/jpeg", Num(5)),
      Upload("front_image", NULL, Num(5)),
      Upload("front_image", "", Num(5)),
      Upload("front_image", "text/plain", Num(5)),
      Upload("front_image", "image/webp", Missing),
      Upload("front_image", "image/webp", Num(0)),
      Upload("front_image", "image/webp", Num(UPLOADS_MAX_BYTES + 1)),
      [NoBody EXCEPT !.isObject = FALSE] }

\* The bodies of POST /v1/analyze and POST /v1/grade.
ProxyBodies ==
    JobBodies \cup
    { [NoBody EXCEPT !.card_type = "pokemon", !.front_image = Image("base64", "front1"),
                     !.back_image = Image("base64", "back1")],
      [NoBody EXCEPT !.card_type = "pokemon", !.front_image = Image("base64", "front1"),
                     !.back_image = Image("base64", "")] }

RouteTenants == {NULL, "T1", "T2"}

\* no object store; bucket and region; bucket and AWS_REGION with a prefix
\* of its own; a blank bucket
UploadEnvs ==
    { UploadEnv(MkEnv(a, [kind |-> "unset", n |-> 0], NULL), u[1], u[2], u[3], u[4]) :
        a \in OpenEnvs,
        u \in { <<NULL, NULL, NULL, NULL>>, <<"bkt", "eu-west-1", NULL, NULL>>,
                <<"bkt", NULL, "eu-west-1", "p/">>, <<" ", "eu-west-1", NULL, NULL>> } }

UploadInit ==
    /\ env \in UploadEnvs
    /\ nowMinute = 0
    /\ api_keys = {}
    /\ rateState = EmptyMap
    /\ reqs = [r \in Slots |-> IdleReq]
    /\ rlHistory = EmptyMap
    /\ logRecords = {}
    /\ usage_events = {}
    /\ jobs = <<>>
    /\ tasks = <<>>
    /\ jobWrites = <<>>
    /\ work = [r \in Slots |-> IdleWork]
    /\ polled = <<>>
    /\ signed = {}
    /\ uuids = 0

UploadNext ==
    \/ \E r \in Slots, b \in UploadBodies, t \in RouteTenants : Admit(r, "uploads", b, t)
    \/ \E r \in Slots : PostUploads(r)
    \/ \E r \in Slots : SignPut(r)
    \/ \E r \in Slots : SignGet(r)
    \/ \E r \in Slots : Respond(r)

UploadSpec == UploadInit /\ [][UploadNext]_vars

\* the engine's base URL: unset, blank, set
ProxyEnvs ==
    { MkEnv(a, [kind |-> "unset", n |-> 0], py) :
        a \in OpenEnvs, py \in {NULL, " ", "http://engine"} }

ProxyInit ==
    /\ env \in ProxyEnvs
    /\ nowMinute = 0
    /\ api_keys = {}
    /\ rateState = EmptyMap
    /\ reqs = [r \in Slots |-> IdleReq]
    /\ rlHistory = EmptyMap
    /\ logRecords = {}
    /\ usage_events = {}
    /\ jobs = <<>>
    /\ tasks = <<>>
    /\ jobWrites = <<>>
    /\ work = [r \in Slots |-> IdleWork]
    /\ polled = <<>>
    /\ signed = {}
    /\ uuids = 0

ProxyNext ==
    \/ \E r \in Slots, b \in ProxyBodies, t \in RouteTenants : Admit(r, "analyze", b, t)
    \/ \E r \in Slots, b \in ProxyBodies, t \in RouteTenants : Admit(r, "grade", b, t)
    \/ \E r \in Slots : PostProxy(r)
    \/ \E r \in Slots : EngineAnswers(r)
    \/ \E r \in Slots : TimerFires(r)
    \/ \E r \in Slots : AbortedFetchRejects(r)
    \/ \E r \in Slots : Respond(r)

ProxySpec == ProxyInit /\ [][ProxyNext]_vars

\* The three callers of the proxy side by side: POST /v1/analyze and
\* POST /v1/grade in one execution context, and the background tasks of the
\* jobs, with the job store, with and without the engine.
CallerEnvs ==
    { MkEnv(a, [kind |-> "unset", n |-> 0], py) :
        a \in { e \in JobEnvs : e.SUPABASE_SERVICE_ROLE_KEY = "svc" },
        py \in {NULL, "http://engine"} }

CallerInit ==
    /\ env \in CallerEnvs
    /\ nowMinute = 0
    /\ api_keys = {}
    /\ rateState = EmptyMap
    /\ reqs = [r \in Slots |-> IdleReq]
    /\ rlHistory = EmptyMap
    /\ logRecords = {}
    /\ usage_events = {}
    /\ jobs = <<>>
    /\ tasks = <<>>
    /\ jobWrites = <<>>
    /\ work = [r \in Slots |-> IdleWork]
    /\ polled = <<>>
    /\ signed = {}
    /\ uuids = 0

CallerNext ==
    \/ \E b \in ProxyBodies : Admit(1, "analyze", b, NULL)
    \/ \E b \in ProxyBodies : Admit(1, "grade", b, NULL)
    \/ PostProxy(1)
    \/ EngineAnswers(1)
    \/ TimerFires(1)
    \/ AbortedFetchRejects(1)
    \/ Respond(1)
    \/ \E t \in JobTenants, p \in Payloads : CreateJob(t, p)
    \/ \E j \in DOMAIN tasks : TaskStart(j)
    \/ \E j \in DOMAIN tasks : TaskMarkProcessing(j)
    \/ \E j \in DOMAIN tasks : TaskNoEngine(j)
    \/ \E j \in DOMAIN tasks : TaskCallEngine(j)
    \/ \E j \in DOMAIN tasks : TaskFinish(j)

CallerSpec == CallerInit /\ [][CallerNext]_vars

----------------------------------------------------------------------------
(* The whole path of a request: route schema, preHandler, route handler,   *)
(* onResponse -- for POST /v1/analyze and POST /v1/jobs.  The background   *)
(* task of a created job is followed in JobSpec and JobApiSpec.            *)

\* the URL of a route
UrlOf(route) == [segs |-> <<"v1", route>>, query |-> FALSE]

\* A request arrives.  Fastify validates the body against the route's
\* schema first: a body it refuses goes to the error handler.  Otherwise the
\* preHandler hook runs (Receive).
Arrive(r, route, b, h) ==
    /\ work[r].pc = "idle"
    /\ route = "jobs" => Len(jobs) + JobsInFlight < MaxApiJobs
    /\ LET w == [work[r] EXCEPT !.route = route, !.body = b] IN
       IF ~SchemaAccepts(route, b)
       THEN /\ reqs[r].pc = "idle"
            /\ \A q \in Slots : q < r => reqs[q].pc # "idle"
            /\ work' = [work EXCEPT ![r] = ErrorHandler(w)]
            /\ reqs' = [reqs EXCEPT ![r] = [IdleReq EXCEPT !.pc = "running", !.url = UrlOf(route),
                                                           !.keyGiven = Len(h.vals) > 0]]
            /\ UNCHANGED <<env, nowMinute, api_keys, rateState, rlHistory, jobVars,
                           polled, signed, uuids>>
            /\ Quiet
       ELSE /\ Receive(r, UrlOf(route), h)
            /\ work' = [work EXCEPT ![r] = [w EXCEPT !.pc = "prehandler"]]

\* The preHandler hook has returned without a reply: the route handler is
\* called with the tenant the hook attached.
EnterHandler(r) ==
    /\ reqs[r].pc = "handler" /\ work[r].pc = "prehandler"
    /\ reqs' = [reqs EXCEPT ![r].pc = "running"]
    /\ work' = [work EXCEPT ![r].pc = "handler", ![r].tenantId = reqs[r].tenantId]
    /\ UNCHANGED <<env, nowMinute, api_keys, rateState, rlHistory, jobVars,
                   polled, signed, uuids>>
    /\ Quiet

\* The reply of the handler (or of the error handler) is sent; a reply the
\* hook sent leaves the handler uncalled.
ReplySent(r) ==
    /\ \/ reqs[r].pc = "running" /\ work[r].pc = "sent"
       \/ reqs[r].pc = "send" /\ work[r].pc = "prehandler"
    /\ reqs' = [reqs EXCEPT ![r] =
                  IF reqs[r].pc = "send" THEN reqs[r]
                  ELSE [reqs[r] EXCEPT !.pc = "send", !.statusCode = work[r].statusCode,
                                       !.error_code = work[r].error_code,
                                       !.handlerRan = PassedSchema(work[r])]]
    /\ work' = [work EXCEPT ![r] = IdleWork]
    /\ UNCHANGED <<env, nowMinute, api_keys, rateState, rlHistory, jobVars,
                   polled, signed, uuids>>
    /\ Quiet

\* store authentication with a limit of 1 and the engine; an allow-list with
\* the engine; open mode with a limit of 1 and no engine; store
\* authentication without the engine
PipeEnvs ==
    { MkEnv(a, rl, py) : a \in AuthEnvs, rl \in NoLimits \cup Limits, py \in {NULL, "http://engine"} }

\* no x-api-key header, ' a ' and 'b'
PipeHeaders == { h \in Headers : ~h.isArray /\ (h.vals = <<>> \/ h.vals[1] \in {" a ", "b"}) }

PipeInit ==
    /\ env \in { e \in PipeEnvs :
                   \/ /\ e.SUPABASE_SERVICE_ROLE_KEY = "svc" /\ e.PREGRADE_API_KEYS = <<>>
                      /\ e.PREGRADE_RATE_LIMIT_PER_MIN = [kind |-> "int", n |-> 1]
                      /\ e.PREGRADE_PYTHON_BASE_URL # NULL
                   \/ /\ e.SUPABASE_URL = NULL /\ e.PREGRADE_API_KEYS # <<>>
                      /\ e.PREGRADE_RATE_LIMIT_PER_MIN.kind = "unset"
                      /\ e.PREGRADE_PYTHON_BASE_URL # NULL
                   \/ /\ e.SUPABASE_URL = NULL /\ e.PREGRADE_API_KEYS = <<>>
                      /\ e.PREGRADE_RATE_LIMIT_PER_MIN = [kind |-> "int", n |-> 1]
                      /\ e.PREGRADE_PYTHON_BASE_URL = NULL
                   \/ /\ e.SUPABASE_SERVICE_ROLE_KEY = "svc" /\ e.PREGRADE_API_KEYS = <<>>
                      /\ e.PREGRADE_RATE_LIMIT_PER_MIN.kind = "unset"
                      /\ e.PREGRADE_PYTHON_BASE_URL = NULL }
    /\ nowMinute = 0
    /\ api_keys = {}
    /\ rateState = EmptyMap
    /\ reqs = [r \in Slots |-> IdleReq]
    /\ rlHistory = EmptyMap
    /\ logRecords = {}
    /\ usage_events = {}
    /\ jobs = <<>>
    /\ tasks = <<>>
    /\ jobWrites = <<>>
    /\ work = [r \in Slots |-> IdleWork]
    /\ polled = <<>>
    /\ signed = {}
    /\ uuids = 0

PipeNext ==
    \/ \E r \in Slots, b \in JobBodies, h \in PipeHeaders : Arrive(r, "analyze", b, h)
    \/ \E r \in Slots, b \in JobBodies, h \in PipeHeaders : Arrive(r, "jobs", b, h)
    \/ \E r \in Slots : StoreLookup(r)
    \/ \E r \in Slots : AuthResume(r)
    \/ \E r \in Slots : EnterHandler(r)
    \/ \E r \in Slots : PostProxy(r)
    \/ \E r \in Slots : EngineAnswers(r)
    \/ \E r \in Slots : TimerFires(r)
    \/ \E r \in Slots : AbortedFetchRejects(r)
    \/ \E r \in Slots : PostJobs(r)
    \/ \E r \in Slots : JobInsert(r)
    \/ \E r \in Slots : PostJobsResume(r)
    \/ \E r \in Slots : ReplySent(r)
    \/ \E r \in Slots : work[r].pc = "idle" /\ OnResponse(r)
    \/ \E k \in ProvisionedKeys : Provision(k)
    \/ \E k \in ProvisionedKeys : Revoke(k)
    \/ Tick

PipeSpec == PipeInit /\ [][PipeNext]_vars

----------------------------------------------------------------------------
(* index.ts: the request id, the routes that need no key, the 404 handler, *)
(* and the response a client gets.                                         *)

API_VERSION == "1.0"

\* Array.isArray(header) ? header[0] : header
Incoming(h) == IF Len(h.vals) = 0 THEN NULL ELSE h.vals[1]

\* Mutant: no identifier is generated for a request that brings none.
requestIdOf_NotGenerated(h, n) ==
    IF Incoming(h) # NULL /\ Trim(Incoming(h)) # "" THEN Given(Trim(Incoming(h))) ELSE NoRid

\* Mutant: the caller's identifier is ignored.
requestIdOf_NeverEchoes(h, n) == Uuid(n)

\* the onRequest hook's requestId: the caller's X-Request-Id, trimmed, when it
\* is a non-blank string, and crypto.randomUUID() otherwise (n: the draw)
requestIdOf(h, n) ==
    IF Incoming(h) # NULL /\ Trim(Incoming(h)) # "" THEN Given(Trim(Incoming(h))) ELSE Uuid(n)

\* The onRequest hook, the first code a request runs: req.requestId and the
\* reply's x-request-id header.
OnRequest(r, h) ==
    /\ work[r].pc = "idle" /\ ~work[r].hooked /\ reqs[r].pc = "idle"
    /\ \A q \in Slots : q < r => (work[q].hooked \/ reqs[q].pc # "idle")
    /\ LET requestId == requestIdOf(h, uuids + 1) IN
       /\ requestId.t = "uuid" => uuids < MaxRequestIds
       /\ uuids' = IF requestId.t = "uuid" THEN uuids + 1 ELSE uuids
       /\ work' = [work EXCEPT ![r].hooked = TRUE, ![r].requestId = requestId,
                               ![r].xRequestId = requestId, ![r].incoming = Incoming(h)]
    /\ UNCHANGED <<env, nowMinute, api_keys, rateState, reqs, rlHistory, jobVars,
                   polled, signed>>
    /\ Quiet

\* GET /v1/health: { ok: true, api_version }, status 200
GetHealth(r) ==
    /\ work[r].pc = "handler" /\ work[r].route = "health"
    /\ work' = [work EXCEPT ![r].pc = "sent", ![r].statusCode = 200]
    /\ UNCHANGED <<env, nowMinute, api_keys, rateState, reqs, rlHistory, jobVars,
                   polled, signed, uuids>>
    /\ Quiet

\* GET /v1/openapi.yaml: the file read at startup as text/yaml, or 501
\* when it was not there
GetOpenapi(r) ==
    /\ work[r].pc = "handler" /\ work[r].route = "openapi.yaml"
    /\ work' = [work EXCEPT ![r] =
                  IF env.openapiYaml = NULL
                  THEN ErrorReply(work[r], 501, "NOT_IMPLEMENTED",
                                  "OpenAPI file not available in this build.")
                  ELSE [work[r] EXCEPT !.pc = "sent", !.statusCode = 200]]
    /\ UNCHANGED <<env, nowMinute, api_keys, rateState, reqs, rlHistory, jobVars,
                   polled, signed, uuids>>
    /\ Quiet

\* setNotFoundHandler: a URL no route matches
NotFound(r) ==
    /\ work[r].pc = "handler" /\ work[r].route = "nope"
    /\ work' = [work EXCEPT ![r] =
                  ErrorReply(work[r], 404, "ROUTE_NOT_FOUND", "Unsupported route: GET /v1/nope")]
    /\ UNCHANGED <<env, nowMinute, api_keys, rateState, reqs, rlHistory, jobVars,
                   polled, signed, uuids>>
    /\ Quiet

\* the request in slot r has its reply: sent by the preHandler hook, or by
\* the route handler, the 404 handler or the error handler
Answered(r) ==
    \/ reqs[r].pc = "send" /\ work[r].pc = "prehandler"
    \/ reqs[r].pc = "running" /\ work[r].pc = "sent"

\* The body of a success of the engine, { api_version, request_id, result }:
\* the engine names the analysis by a digest of the image bytes.
EngineEnvelope(b) ==
    [fields |-> {"api_version", "request_id", "result"},
     api_version |-> "1.0", request_id |-> Digest(b.front_image.data)]

ErrorFields == {"api_version", "request_id", "error_code", "error_message"}

\* The reply of the request in slot r as the client gets it: the status,
\* the x-request-id header, the names of the body's fields, and api_version,
\* request_id and error_code of the body (NoRid, NULL: null or not there).
Response(r) ==
    LET w == work[r]
        byHook == reqs[r].pc = "send"
        code == IF byHook THEN reqs[r].error_code ELSE w.error_code
        body ==
            IF code # NULL
            THEN [fields |-> ErrorFields, api_version |-> API_VERSION, request_id |-> w.requestId]
            ELSE CASE w.route \in {"analyze", "grade"} -> EngineEnvelope(w.body)
                   [] w.route = "health" ->
                        [fields |-> {"ok", "api_version"}, api_version |-> API_VERSION,
                         request_id |-> NoRid]
                   [] OTHER -> [fields |-> {}, api_version |-> NULL, request_id |-> NoRid]
    IN  [status |-> IF byHook THEN reqs[r].statusCode ELSE w.statusCode,
         x_request_id |-> w.xRequestId,
         fields |-> body.fields, api_version |-> body.api_version,
         request_id |-> body.request_id, error_code |-> code]

\* X-Request-Id: absent, empty, 'rid1'.  (Node hands a header over without
\* the blanks around its value.)
RequestIdHeaders == { [isArray |-> FALSE, vals |-> <<>>], Str(""), Str("rid1") }

\* X-API-Key: absent, 'b' (on the allow-list), 'c'
EnvelopeHeaders == { h \in Headers : ~h.isArray /\ (h.vals = <<>> \/ h.vals[1] \in {"b", "c"}) }

\* an allow-list, a limit of 1, the engine and the OpenAPI file; open mode
\* with no limit, no engine and no file
EnvelopeEnvs ==
    { [openapiYaml |-> "openapi: 3.0.3"] @@ MkEnv(a, [kind |-> "int", n |-> 1], "http://engine") :
        a \in { e \in AuthEnvs : e.SUPABASE_URL = NULL /\ e.PREGRADE_API_KEYS # <<>> } }
    \cup { [openapiYaml |-> NULL] @@ MkEnv(a, [kind |-> "unset", n |-> 0], NULL) : a \in OpenEnvs }

EnvelopeInit ==
    /\ env \in EnvelopeEnvs
    /\ nowMinute = 0
    /\ api_keys = {}
    /\ rateState = EmptyMap
    /\ reqs = [r \in Slots |-> IdleReq]
    /\ rlHistory = EmptyMap
    /\ logRecords = {}
    /\ usage_events = {}
    /\ jobs = <<>>
    /\ tasks = <<>>
    /\ jobWrites = <<>>
    /\ work = [r \in Slots |-> IdleWork]
    /\ polled = <<>>
    /\ signed = {}
    /\ uuids = 0

EnvelopeNext ==
    \/ \E r \in Slots, h \in RequestIdHeaders : OnRequest(r, h)
    \/ \E r \in Slots, b \in JobBodies, h \in EnvelopeHeaders :
         work[r].hooked /\ Arrive(r, "analyze", b, h)
    \/ \E r \in Slots, route \in {"health", "openapi.yaml", "nope"}, h \in EnvelopeHeaders :
         work[r].hooked /\ Arrive(r, route, NoBody, h)
    \/ \E r \in Slots : EnterHandler(r)
    \/ \E r \in Slots : PostProxy(r)
    \/ \E r \in Slots : EngineAnswers(r)
    \/ \E r \in Slots : TimerFires(r)
    \/ \E r \in Slots : AbortedFetchRejects(r)
    \/ \E r \in Slots : GetHealth(r)
    \/ \E r \in Slots : GetOpenapi(r)
    \/ \E r \in Slots : NotFound(r)
    \/ \E r \in Slots : ReplySent(r)
    \/ \E r \in Slots : work[r].pc = "idle" /\ OnResponse(r)

EnvelopeSpec == EnvelopeInit /\ [][EnvelopeNext]_vars

\* GET /v1/health next to a route the hook guards (one no route matches),
\* under every way of authenticating, with a limit of 1 and with none.
HealthEnvs ==
    { [openapiYaml |-> NULL] @@ MkEnv(a, rl, NULL) :
        a \in AuthEnvs, rl \in {[kind |-> "int", n |-> 1], [kind |-> "unset", n |-> 0]} }

\* X-API-Key: absent, ' ', ' a ', 'b', 'c'
HealthHeaders == { h \in Headers : ~h.isArray }

HealthInit ==
    /\ env \in HealthEnvs
    /\ nowMinute = 0
    /\ api_keys = {}
    /\ rateState = EmptyMap
    /\ reqs = [r \in Slots |-> IdleReq]
    /\ rlHistory = EmptyMap
    /\ logRecords = {}
    /\ usage_events = {}
    /\ jobs = <<>>
    /\ tasks = <<>>
    /\ jobWrites = <<>>
    /\ work = [r \in Slots |-> IdleWork]
    /\ polled = <<>>
    /\ signed = {}
    /\ uuids = 0

HealthNext ==
    \/ \E r \in Slots, route \in {"health", "nope"}, h \in HealthHeaders :
         Arrive(r, route, NoBody, h)
    \/ \E r \in Slots : StoreLookup(r)
    \/ \E r \in Slots : AuthResume(r)
    \/ \E r \in Slots : EnterHandler(r)
    \/ \E r \in Slots : GetHealth(r)
    \/ \E r \in Slots : NotFound(r)
    \/ \E r \in Slots : ReplySent(r)
    \/ \E r \in Slots : work[r].pc = "idle" /\ OnResponse(r)
    \/ \E k \in ProvisionedKeys : Provision(k)
    \/ \E k \in ProvisionedKeys : Revoke(k)
    \/ Tick

HealthSpec == HealthInit /\ [][HealthNext]_vars

----------------------------------------------------------------------------
(* The claims.                                                             *)

\* a request whose preHandler has run to its end
Decided(r) == reqs[r].pc \in {"handler", "send"}
Admitted(r) == Decided(r) /\ reqs[r].statusCode # 429 /\ reqs[r].statusCode # 401
Rejected429(r) ==
    /\ reqs[r].pc = "send"
    /\ reqs[r].statusCode = 429
    /\ reqs[r].error_code = "RATE_LIMIT_EXCEEDED"
    /\ ~reqs[r].handlerRan
Rejected401(r, code) ==
    /\ reqs[r].pc = "send"
    /\ reqs[r].statusCode = 401
    /\ reqs[r].error_code = code
    /\ ~reqs[r].handlerRan

\* the configured N of PREGRADE_RATE_LIMIT_PER_MIN, read off the variable
ConfiguredN == env.PREGRADE_RATE_LIMIT_PER_MIN.n

\* C1: with a limit of N per minute, a request that reaches the limiter is
\* admitted when fewer than N requests of its subject reached the limiter
\* before it in the same wall-clock minute (requests 1..N of the window),
\* and answered 429 RATE_LIMIT_EXCEEDED otherwise (request N+1 and later);
\* the first request of the next minute has none before it and is admitted.
C1_FirstNAdmitted ==
    \A r \in Slots :
        reqs[r].limited =>
            IF reqs[r].seenBefore < ConfiguredN THEN Admitted(r) ELSE Rejected429(r)

\* C1 witness: request N+1 of minute 0 was rejected, the minute passed, and
\* the first request of minute 1 of the same subject is admitted.
C1_Witness ==
    \E r, q \in Slots :
        /\ nowMinute = 1
        /\ reqs[r].limited /\ Rejected429(r) /\ reqs[r].seenBefore = ConfiguredN
        /\ reqs[q].limited /\ Admitted(q) /\ reqs[q].seenBefore = 0
        /\ reqs[q].subject = reqs[r].subject
        /\ rateState[reqs[q].subject] = [windowEpochMinute |-> 1, count |-> 1]

\* C2: every stored counter lies in 0..N; a step that rejects a request
\* changes no counter; and a step that changes a subject's entry either
\* adds one in the current window or, on rollover (no entry, or an entry of
\* another minute), leaves (current minute, 1).
C2_CounterBounded ==
    [][ /\ \A s \in DOMAIN rateState' :
             /\ rateState'[s].count \in 0..ConfiguredN
             /\ (s \notin DOMAIN rateState \/ rateState'[s] # rateState[s]) =>
                   IF s \in DOMAIN rateState /\ rateState[s].windowEpochMinute = nowMinute
                   THEN rateState'[s] = [windowEpochMinute |-> nowMinute,
                                         count |-> rateState[s].count + 1]
                   ELSE rateState'[s] = [windowEpochMinute |-> nowMinute, count |-> 1]
        /\ (\E r \in Slots : reqs[r].statusCode # 429 /\ reqs'[r].statusCode = 429)
              => rateState' = rateState
      ]_vars

\* C2 witness: a subject's window rolled over, was filled again, and a
\* request was rejected in the new window.
C2_Witness ==
    \E r \in Slots :
        /\ nowMinute = 1
        /\ Rejected429(r)
        /\ rateState[reqs[r].subject] = [windowEpochMinute |-> 1, count |-> ConfiguredN]
        /\ SoFar(reqs[r].subject).admitted = ConfiguredN

\* C3: whatever the interleaving of requests, a subject's stored counter of
\* the current minute equals the number of its requests admitted in that
\* minute, every admission is in the counter, and no more than N are admitted.
C3_NoLostUpdate ==
    /\ \A s \in DOMAIN rateState :
          rateState[s].windowEpochMinute = nowMinute => rateState[s].count = SoFar(s).admitted
    /\ \A s \in DOMAIN rlHistory :
          /\ rlHistory[s].admitted <= ConfiguredN
          /\ rlHistory[s].admitted > 0 =>
                /\ s \in DOMAIN rateState
                /\ rateState[s] = [windowEpochMinute |-> nowMinute, count |-> rlHistory[s].admitted]

\* C3 witness: two requests of one tenant were in validateApiKey at the same
\* time; one has been counted while the other still waits to resume.
C3_Witness ==
    \E r, q \in Slots :
        /\ reqs[r].pc = "resume" /\ reqs[r].answer.data # {}
        /\ reqs[q].limited /\ Admitted(q) /\ reqs[q].apiKeyId # NULL
        /\ reqs[q].subject = "T1"
        /\ rateState["T1"].count = 1
        /\ ConfiguredN = 2

\* a credential mechanism is configured, read off the environment
StoreConfigured ==
    /\ env.SUPABASE_URL \notin {NULL, "", " "}
    /\ env.SUPABASE_SERVICE_ROLE_KEY \notin {NULL, "", " "}
AllowList ==
    { env.PREGRADE_API_KEYS[i] : i \in DOMAIN env.PREGRADE_API_KEYS } \ {"", " "}
CredentialsConfigured == StoreConfigured \/ AllowList # {}

\* the key of request r matches no stored hash / no entry of the allow-list
MatchesNothing(r) ==
    IF StoreConfigured
    THEN reqs[r].pc # "lookup" /\ ~reqs[r].answer.error /\ reqs[r].answer.data = {}
    ELSE \A e \in AllowList : Trim(e) # reqs[r].apiKeyStr

\* C4: with a credential mechanism configured, a request to a non-exempt
\* route without X-API-Key is answered 401 MISSING_API_KEY, one whose key
\* matches nothing is answered 401 INVALID_API_KEY, and neither reaches
\* the route handler.
C4_MissingOrInvalidKey ==
    \A r \in Slots :
        (CredentialsConfigured /\ Decided(r) /\ ~IsExempt(reqs[r].url)) =>
            /\ ~reqs[r].keyGiven => Rejected401(r, "MISSING_API_KEY")
            /\ (reqs[r].apiKeyStr # NULL /\ MatchesNothing(r)) => Rejected401(r, "INVALID_API_KEY")

\* C4 witness: one request without a key and one with an unknown key have
\* been answered, the second after a lookup in the credential store.
C4_Witness ==
    \E r, q \in Slots :
        /\ StoreConfigured
        /\ ~reqs[r].keyGiven /\ Rejected401(r, "MISSING_API_KEY")
        /\ reqs[q].apiKeyStr # NULL /\ MatchesNothing(q) /\ Rejected401(q, "INVALID_API_KEY")

\* C5: a request that arrives when its key's row is revoked is answered
\* 401 INVALID_API_KEY although the hash matches: no tenant is attached,
\* the limiter and the handler are not reached.
C5_RevokedNeverAuthenticates ==
    \A r \in Slots :
        (reqs[r].revokedAtStart /\ Decided(r)) =>
            /\ Rejected401(r, "INVALID_API_KEY")
            /\ reqs[r].tenantId = NULL /\ reqs[r].apiKeyId = NULL
            /\ ~reqs[r].limited

\* C5 witness: the key was used with success, then revoked, then presented
\* again and refused on a matching row.
C5_Witness ==
    \E r, q \in Slots :
        /\ reqs[r].revokedAtStart /\ Rejected401(r, "INVALID_API_KEY")
        /\ \E row \in reqs[r].answer.data : row.revoked_at # NULL
        /\ reqs[q].apiKeyStr = reqs[r].apiKeyStr /\ reqs[q].tenantId = "T1" /\ reqs[q].handlerRan

\* C6 (the claim as stated): an authentication that failed because the
\* credential store's lookup failed is reported as misconfigured, never as
\* invalid.
C6_StoreErrorIsMisconfigured ==
    \A r \in Slots :
        (reqs[r].storeError /\ reqs[r].reason # NULL) => reqs[r].reason = "misconfigured"

\* the plaintext keys: those clients present and those provisioning creates
Plaintexts == {"a", "b", "c"}
Digests == { hashApiKey(k) : k \in Plaintexts }

\* C7 (the claim as stated): no log record, usage event, job row or
\* api_keys row holds the plaintext of a key; api_keys holds its digest.
C7_NoPlaintextKept ==
    /\ \A rec \in logRecords : rec.tenant_id \notin Plaintexts
    /\ \A evt \in usage_events : evt.tenant_id \notin Plaintexts /\ evt.api_key_id \notin Plaintexts
    /\ \A row \in api_keys :
          row.key_hash \in Digests /\ row.id \notin Plaintexts /\ row.tenant_id \notin Plaintexts
    /\ \A j \in DOMAIN jobs : jobs[j].tenant_id \notin Plaintexts

\* C8: with neither the credential store nor an allow-list configured, no
\* request is answered 401 whatever key it carries; no tenant or key id is
\* attached; a request to a non-exempt route is limited as the subject
\* "anonymous" when a limit is active, and reaches the handler unless the
\* limiter rejects it.
C8_OpenModeSkipsAuth ==
    ~CredentialsConfigured =>
        \A r \in Slots :
            Decided(r) =>
                /\ reqs[r].statusCode # 401
                /\ reqs[r].tenantId = NULL /\ reqs[r].apiKeyId = NULL
                /\ (~IsExempt(reqs[r].url) /\ ConfiguredN > 0) =>
                       reqs[r].limited /\ reqs[r].subject = "anonymous"
                /\ reqs[r].pc = "send" => (reqs[r].handlerRan \/ Rejected429(r))

\* C8 witness: in open mode a request with a key and one without were both
\* limited as "anonymous" and the first was handled.
C8_Witness ==
    /\ ~CredentialsConfigured
    /\ \E r, q \in Slots :
          /\ reqs[r].keyGiven /\ reqs[r].pc = "send" /\ reqs[r].handlerRan
          /\ reqs[r].subject = "anonymous"
          /\ ~reqs[q].keyGiven /\ Decided(q) /\ reqs[q].subject = "anonymous"

Sends(r, route) ==
    work[r].pc # "sent" /\ work'[r].pc = "sent" /\ work'[r].route = route

\* C11: when POST /v1/jobs answers 200, the job it names is already in the
\* store, pending, with the caller's tenant and payload, and has no task
\* yet; the step that sends the response is the one that queues the task,
\* so the answer says pending and no step of the task has run or written;
\* and a poll of a returned id by the job's tenant, issued after that
\* response, is never answered 'Job not found.'
C11_PersistedBeforeResponse ==
    [][ \A r \in Slots :
          /\ (Sends(r, "jobs") /\ work'[r].statusCode = 200) =>
                LET id == work'[r].payload.job_id IN
                /\ id \in DOMAIN jobs
                /\ jobs[id].status = "pending"
                /\ jobs[id].tenant_id = work[r].tenantId
                /\ jobs[id].request_payload = PayloadOf(work[r].body)
                /\ tasks[id].pc = "unscheduled"
                /\ tasks'[id].pc = "scheduled"
                /\ jobs'[id] = jobs[id] /\ jobWrites'[id] = <<>>
                /\ work'[r].payload.status = "pending"
          /\ (Sends(r, "job") /\ work[r].afterReturn
                /\ jobs[work[r].body.id].tenant_id = work[r].tenantId) =>
                /\ work'[r].error_message # "Job not found."
                /\ work'[r].statusCode # 404
      ]_vars

\* C11 witness: POST /v1/jobs has answered 200 with a job id, and a poll of
\* that id by the same tenant, issued after the answer, has been answered
\* with the job, pending, before its task has taken a step.
C11_Witness ==
    \E r, q \in Slots :
        /\ work[r].route = "jobs" /\ work[r].pc = "sent" /\ work[r].statusCode = 200
        /\ work[q].route = "job" /\ work[q].pc = "sent" /\ work[q].afterReturn
        /\ work[q].body.id = work[r].payload.job_id
        /\ work[q].tenantId = "T1" /\ work[r].tenantId = "T1"
        /\ work[q].statusCode = 200 /\ work[q].payload.status = "pending"
        /\ tasks[work[r].payload.job_id].pc = "scheduled"

\* what a poll that was answered with a job reported
Observed(r) ==
    [status |-> work[r].payload.status, result |-> work[r].payload.result,
     error |-> work[r].payload.error]

\* a poll that was answered with the state of a job
PollAnswered(r) == work[r].route = "job" /\ work[r].pc = "sent" /\ work[r].statusCode = 200

\* C12: a poll whose read came before the task issued its terminal write
\* reports pending or processing; a poll issued after some poll of the job
\* has reported a terminal state reports that same status, result and
\* error; and what polls have reported as terminal is what the store holds.
C12_PollsMonotone ==
    /\ \A r \in Slots :
          PollAnswered(r) =>
             /\ ~work[r].writeIssued => work[r].payload.status \in {"pending", "processing"}
             /\ work[r].seenBefore # NoObs => Observed(r) = work[r].seenBefore
             /\ work[r].payload.status \in Terminal => polled[work[r].outcome.jobId] = Observed(r)
    /\ \A j \in DOMAIN polled :
          polled[j] # NoObs =>
             /\ polled[j].status \in Terminal
             /\ j \in DOMAIN jobs
             /\ [status |-> jobs[j].status, result |-> jobs[j].result, error |-> jobs[j].error] = polled[j]

\* C12 witness: a poll reported completed with the result, and a poll
\* issued after it reported completed with the same result; another run
\* does the same with failed.
C12_Witness ==
    \E r \in Slots :
        /\ PollAnswered(r)
        /\ work[r].seenBefore.status = "completed" /\ work[r].seenBefore.result = "result"
        /\ Observed(r) = work[r].seenBefore
        /\ work[r].writeIssued

\* an unscoped query: no tenant, or the subject 'anonymous'
Unscoped(t) == t = NULL \/ t = "anonymous"

\* C13: the select of a poll under tenant scope T finds the job exactly
\* when the job exists and is owned by T or by no tenant; an unscoped
\* select finds every job that exists; what is found is the row's state;
\* and what is not found is answered the same way, 404 'Job not found.',
\* whether the id is unknown or the job is another tenant's.
C13_TenantIsolation ==
    [][ \A r \in Slots :
          /\ (work[r].pc = "query" /\ work'[r].pc = "answered"
                /\ work'[r].outcome.error # "db error") =>
                LET id == work[r].body.id
                    t == work[r].tenantId
                    found == work'[r].outcome.error = NULL
                IN  /\ found <=> /\ id \in DOMAIN jobs
                                 /\ \/ Unscoped(t)
                                    \/ jobs[id].tenant_id = NULL
                                    \/ jobs[id].tenant_id = t
                    /\ found => /\ work'[r].outcome.status = jobs[id].status
                                /\ work'[r].outcome.result = jobs[id].result
                                /\ work'[r].outcome.jobError = jobs[id].error
                    /\ ~found => work'[r].outcome = [NoOutcome EXCEPT !.error = "Job not found."]
          /\ (Sends(r, "job") /\ work[r].pc = "answered"
                /\ work[r].outcome.error = "Job not found.") =>
                /\ work'[r].statusCode = 404
                /\ work'[r].error_message = "Job not found."
                /\ work'[r].payload = NoPayload
      ]_vars

\* C13 witness: a job owned by T1 was polled by T2, answered 404, and by a
\* caller without tenant, answered with the job.
C13_Witness ==
    \E r, q \in Slots, j \in DOMAIN jobs :
        /\ jobs[j].tenant_id = "T1"
        /\ work[r].route = "job" /\ work[r].pc = "sent" /\ work[r].body.id = j
        /\ work[r].tenantId = "T2" /\ work[r].statusCode = 404
        /\ work[q].route = "job" /\ work[q].pc = "sent" /\ work[q].body.id = j
        /\ work[q].tenantId = NULL /\ work[q].statusCode = 200

\* C14 (the claim as stated): a poll of an id that does not exist or that
\* the caller may not see is answered with a not-found failure whose
\* error_code is not INTERNAL_ERROR.
C14_NotFoundIsNotInternal ==
    \A r \in Slots :
        (work[r].route = "job" /\ work[r].pc = "sent"
            /\ work[r].outcome.error = "Job not found.") =>
            /\ work[r].statusCode = 404
            /\ work[r].error_code # "INTERNAL_ERROR"

\* the request in slot r passed the route's schema and its handler's checks
PassedValidation(r) ==
    LET w == work[r] IN
    /\ SchemaAccepts(w.route, w.body)
    /\ CASE w.route = "uploads" -> UploadBodyCheck(w).statusCode = 0
         [] w.route = "grade"   -> GradeBodyCheck(w).statusCode = 0
         [] w.route \in {"analyze", "jobs"} -> AnalyzeBodyCheck(w).statusCode = 0
         [] OTHER -> TRUE

\* the optional dependency the route of slot r needs is not configured
DependencyMissing(r) ==
    CASE work[r].route = "uploads" -> ~uploadsConfigured
      [] work[r].route \in {"analyze", "grade"} -> ~NonBlank(env.PREGRADE_PYTHON_BASE_URL)
      [] work[r].route \in {"jobs", "job"} -> ~JobsConfigured
      [] OTHER -> FALSE

\* C15 (the claim as stated): a valid request to a route whose optional
\* dependency is not configured (uploads: object store; analyze, grade:
\* engine base URL; POST /v1/jobs and GET /v1/jobs/:id: job store) is
\* answered 501 NOT_IMPLEMENTED, never INTERNAL_ERROR.
C15_MissingDependencyIs501 ==
    \A r \in Slots :
        (work[r].pc = "sent" /\ PassedValidation(r) /\ DependencyMissing(r)) =>
            /\ work[r].statusCode = 501
            /\ work[r].error_code = "NOT_IMPLEMENTED"

\* a body the claim calls invalid: kind, content_type or content_length
InvalidUpload(b) ==
    \/ b.kind \notin {"front_image", "back_image"}
    \/ b.content_type = NULL
    \/ b.content_type \notin ALLOWED_CONTENT_TYPES
    \/ b.content_length.t # "number"
    \/ b.content_length.n <= 0
    \/ b.content_length.n > UPLOADS_MAX_BYTES

\* C16 (the claim as stated): POST /v1/uploads with an invalid kind, a
\* missing or disallowed content_type, or a content_length that is not
\* positive or exceeds the maximum makes no signing call and is answered
\* 400 with a validation error code.
C16_UploadRejectedBeforeSigning ==
    \A r \in Slots :
        (work[r].route = "uploads" /\ work[r].body.isObject /\ InvalidUpload(work[r].body)) =>
            /\ work[r].signCalls = 0
            /\ work[r].pc \notin {"sign_put", "sign_get"}
            /\ \A c \in signed : c.key # work[r].objectKey \/ work[r].objectKey = NoKey
            /\ work[r].pc = "sent" =>
                  /\ work[r].statusCode = 400
                  /\ work[r].error_code \in {"INVALID_REQUEST_FORMAT", "MISSING_REQUIRED_FIELD"}

\* C17 (the claim as stated): every signing call is made for a key that no
\* other upload has, under a prefix that belongs to the caller's tenant and
\* the kind alone: calls of different tenants or kinds never share a
\* prefix; and the put URL, the get URL and the object URL of an upload
\* name one key.
C17_KeyScopedToTenantAndKind ==
    /\ \A c, d \in signed :
          /\ c.key = d.key => c.tenant = d.tenant /\ c.kind = d.kind
          /\ (c.tenant # NULL /\ d.tenant # NULL /\ c.tenant # d.tenant) =>
                PrefixOfKey(c.key) # PrefixOfKey(d.key)
          /\ c.kind # d.kind => PrefixOfKey(c.key) # PrefixOfKey(d.key)
    /\ \A r \in Slots :
          (work[r].route = "uploads" /\ work[r].pc = "sent" /\ work[r].statusCode = 200) =>
             /\ work[r].payload.put_url = SignedUrl("PUT", work[r].payload.object_url)
             /\ work[r].payload.get_url = SignedUrl("GET", work[r].payload.object_url)

\* the error envelope the engine sends with a status that is not 2xx
EngineErrorCode == "UNSUPPORTED_CARD_TYPE"
EngineErrorMessage == "card type not supported by the engine"

\* C18 (the claim as stated): when the engine answers an analyze or grade
\* call with an error status and its error envelope, the client gets that
\* envelope's error_code and error_message; only a body that does not
\* parse gives INTERNAL_ERROR.
C18_EngineEnvelopeForwarded ==
    \A r \in Slots :
        (work[r].route \in {"analyze", "grade"} /\ work[r].pc = "sent") =>
            /\ work[r].outcome.status = "error_envelope" =>
                  /\ work[r].error_code = EngineErrorCode
                  /\ work[r].error_message = EngineErrorMessage
            /\ work[r].outcome.status = "error_text" =>
                  work[r].error_code = "INTERNAL_ERROR"

\* the message of the exception the proxy throws for the engine's behaviour
RawMessage(route, behaviour) ==
    IF route = "grade" THEN proxyGradeToPython(behaviour).message
    ELSE proxyAnalyzeToPython(behaviour).message

\* C19: an analyze or grade call that times out is aborted by its timer,
\* and one that times out or fails in transport is answered 500
\* INTERNAL_ERROR with the handler's own message, not the exception's, and
\* with no body of the engine; whenever the proxy has returned or thrown
\* its timer is cleared, and no timer is left behind a sent response.
C19_ProxyFailureIsInternalError ==
    \A r \in Slots :
        LET w == work[r] IN
        w.route \in {"analyze", "grade"} =>
            /\ w.pc = "fetch" => w.timer = "set"
            /\ w.pc = "aborted" => w.timer = "fired"
            /\ w.pc \in {"handler", "sent"} =>
                  w.timer = (IF w.engineCalls > 0 THEN "cleared" ELSE "none")
            /\ (w.pc = "sent" /\ w.outcome.status \in {"transport", "timeout"}) =>
                  /\ w.statusCode = 500
                  /\ w.error_code = "INTERNAL_ERROR"
                  /\ w.error_message = ProxyFailedMessage(w.route)
                  /\ w.error_message # RawMessage(w.route, w.outcome.status)
                  /\ w.payload = NoPayload

\* C19 witness: one call was aborted by its timer and answered 500, another
\* failed in transport and was answered 500.
C19_Witness ==
    \E r, q \in Slots :
        /\ work[r].pc = "sent" /\ work[r].outcome.status = "timeout"
        /\ work[r].statusCode = 500 /\ work[r].timer = "cleared"
        /\ work[q].pc = "sent" /\ work[q].outcome.status = "transport"
        /\ work[q].statusCode = 500 /\ work[q].timer = "cleared"
        /\ work[q].route = "grade" /\ work[r].route = "analyze"

\* the key of the request in slot r is one the hook accepts: with keys
\* required, the store returned a row of it that is not revoked, or the
\* allow-list holds it
Authenticated(r) ==
    requireApiKey =>
        /\ reqs[r].apiKeyStr # NULL
        /\ IF useSupabaseAuth
           THEN /\ ~reqs[r].answer.error
                /\ \E row \in reqs[r].answer.data : row.revoked_at = NULL
           ELSE reqs[r].apiKeyStr \in configuredApiKeys

\* the limiter, when active, counted the request in slot r within its limit
WithinLimit(r) ==
    LimitActive => reqs[r].limited /\ reqs[r].seenBefore < ConfiguredN

\* the request in slot r is past the hook and was rejected by nothing
Cleared(r) ==
    /\ reqs[r].pc = "running"
    /\ Authenticated(r)
    /\ WithinLimit(r)
    /\ PassedValidation(r)

\* C20: a step in which a request calls the engine, or in which a job row
\* is inserted, is the step of a request that was authenticated, admitted
\* by the limiter and passed the schema and the handler's checks; so a
\* request answered 401, 429, 400 or by the error handler causes neither.
C20_NoSideEffectWithoutAdmission ==
    [][ /\ \A r \in Slots : work'[r].engineCalls > work[r].engineCalls => Cleared(r)
        /\ Len(jobs') > Len(jobs) =>
              \E r \in Slots : work[r].pc = "insert" /\ work'[r].pc = "created" /\ Cleared(r)
      ]_vars

\* C20 witness: a job was created, one request is at its engine call, and
\* the request in the other slot was answered 429 by the hook, its handler
\* not called.
C20_Witness ==
    \E r, q \in Slots :
        /\ Len(jobs) = 1
        /\ work[q].engineCalls = 1 /\ work[q].pc = "fetch" /\ Cleared(q)
        /\ reqs[r].pc = "send" /\ reqs[r].statusCode = 429 /\ work[r].pc = "prehandler"

\* what the engine sent with its success status, as a JSON value (a body
\* that is no JSON has none), and the gatekeeper's verdict in it
EngineBody(behaviour) ==
    CASE behaviour = "ok" -> "result"
      [] behaviour = "ok_rejected" -> "result_rejected"
      [] OTHER -> NULL

Accepted(body) == body = "result"

C22_SameImageSameRequestId ==
    \A r, q \in Slots :
        (/\ Answered(r) /\ Answered(q)
         /\ work[r].route = "analyze" /\ work[q].route = "analyze"
         /\ work[r].body.front_image = work[q].body.front_image) =>
            Response(r).request_id = Response(q).request_id

\* the taxonomy of error codes the gateway documents
Taxonomy ==
    {"MISSING_API_KEY", "INVALID_API_KEY", "RATE_LIMIT_EXCEEDED", "INVALID_REQUEST_FORMAT",
     "MISSING_REQUIRED_FIELD", "UNSUPPORTED_CARD_TYPE", "ROUTE_NOT_FOUND", "NOT_IMPLEMENTED",
     "INTERNAL_ERROR"}

AuthCodes == {"MISSING_API_KEY", "INVALID_API_KEY"}

\* C24: an envelope whose request_id is null is one of a failed
\* authentication; the envelope of a rate-limit rejection, a validation
\* error, not-found, not-implemented or an internal error has a request_id
\* that is not null.
C24_NullRequestIdOnlyOnAuthFailure ==
    \A r \in Slots :
        (Answered(r) /\ "request_id" \in Response(r).fields) =>
            /\ Response(r).request_id = NoRid => Response(r).error_code \in AuthCodes
            /\ Response(r).error_code \in Taxonomy \ AuthCodes =>
                  Response(r).request_id # NoRid

\* C24 witness: a rate-limit rejection of a request that brought no
\* X-Request-Id next to a not-implemented or not-found answer, both with a
\* request_id.
C24_Witness ==
    \E r, q \in Slots :
        /\ Answered(r) /\ Response(r).error_code = "RATE_LIMIT_EXCEEDED"
        /\ work[r].incoming = NULL /\ Response(r).request_id.t = "uuid"
        /\ Answered(q) /\ Response(q).error_code = "ROUTE_NOT_FOUND"
        /\ Response(q).request_id # NoRid

\* C25: a request with a non-blank X-Request-Id is identified by that value,
\* any other by a fresh identifier no other request has; the x-request-id
\* header of every response, rejections by authentication and by the
\* limiter included, and the request_id of every envelope of the gateway
\* are that identifier.
C25_RequestIdEchoed ==
    \A r \in Slots :
        LET w == work[r] IN
        /\ w.hooked =>
              /\ (w.incoming # NULL /\ w.incoming # "") => w.requestId = Given(w.incoming)
              /\ (w.incoming = NULL \/ w.incoming = "") =>
                    /\ w.requestId.t = "uuid"
                    /\ \A q \in Slots \ {r} : work[q].hooked => work[q].requestId # w.requestId
        /\ Answered(r) =>
              /\ Response(r).x_request_id = w.requestId
              /\ Response(r).x_request_id # NoRid
              /\ Response(r).error_code # NULL => Response(r).request_id = w.requestId

\* C25 witness: a 401 that echoes the caller's 'rid1' next to a 429 with a
\* generated identifier.
C25_Witness ==
    \E r, q \in Slots :
        /\ Answered(r) /\ Response(r).status = 401
        /\ work[r].incoming = "rid1" /\ Response(r).x_request_id = Given("rid1")
        /\ Response(r).request_id = Given("rid1")
        /\ Answered(q) /\ Response(q).status = 429
        /\ work[q].incoming = NULL /\ Response(q).x_request_id.t = "uuid"

\* what the operator configured, read off the variable itself
PositiveLimitConfigured ==
    /\ env.PREGRADE_RATE_LIMIT_PER_MIN.kind = "int"
    /\ env.PREGRADE_RATE_LIMIT_PER_MIN.n > 0

\* C26: a response carries the X-RateLimit-Limit, -Remaining and -Reset
\* headers only when a positive rate limit is configured, and then the
\* limit header is that limit; with no limit, a limit of 0 or an unparseable
\* one, no request is rejected with RATE_LIMIT_EXCEEDED, no response carries
\* the headers and the limiter's counters stay as they were.
C26_LimiterIsNoOpWithoutLimit ==
    /\ \A r \in Slots :
          reqs[r].rlHeaders.set =>
              /\ PositiveLimitConfigured
              /\ reqs[r].rlHeaders.limit = env.PREGRADE_RATE_LIMIT_PER_MIN.n
    /\ ~PositiveLimitConfigured =>
          /\ rateState = EmptyMap
          /\ \A r \in Slots :
                /\ reqs[r].error_code # "RATE_LIMIT_EXCEEDED"
                /\ reqs[r].statusCode # 429
                /\ ~reqs[r].limited

\* C26 witness: with the limit configured as 0, two requests to a limited
\* route have been answered 200 without the headers.
C26_Witness ==
    /\ env.PREGRADE_RATE_LIMIT_PER_MIN = [kind |-> "int", n |-> 0]
    /\ \E r, q \in Slots :
          /\ r # q
          /\ \A x \in {r, q} :
                /\ reqs[x].pc = "send" /\ reqs[x].statusCode = 200
                /\ ~IsExempt(reqs[x].url)
                /\ ~reqs[x].rlHeaders.set

\* the usage recorder has a store to write to
RecorderConfigured == NonBlank(env.SUPABASE_URL) /\ NonBlank(env.SUPABASE_SERVICE_ROLE_KEY)

\* the reply of request r has been sent and its onResponse hook has not run
Sent(r) == reqs[r].pc = "send"

\* C27: the usage recorder never alters the response. A usage event is
\* written only in the step that ends a request whose reply has already been
\* sent, and it carries the status that was sent; a reply, once sent, keeps
\* its status and error code until its request ends; and the step that runs
\* the recorder ends that request and touches no other, whether the event
\* was stored, the insert failed or the recorder is not configured.
C27_RecorderNeverAltersResponse ==
    [][ /\ usage_events' # {} =>
              \E r \in Slots :
                  /\ Sent(r) /\ reqs'[r] = IdleReq
                  /\ \A e \in usage_events' : e.status_code = reqs[r].statusCode
        /\ \A r \in Slots :
              /\ (Sent(r) /\ reqs'[r].pc = "send") =>
                    /\ reqs'[r].statusCode = reqs[r].statusCode
                    /\ reqs'[r].error_code = reqs[r].error_code
              /\ (Sent(r) /\ reqs'[r].pc # "send") =>
                    /\ reqs'[r] = IdleReq
                    /\ \A q \in Slots \ {r} : reqs'[q] = reqs[q]
              /\ (~Sent(r) /\ reqs'[r].pc = "send") => usage_events' = {}
      ]_vars

\* C27 witness: the recorder is configured, the hook of one request has just
\* run and stored nothing, and the reply of another, a 200 sent before, is
\* as it was.
C27_Witness ==
    /\ RecorderConfigured
    /\ logRecords # {} /\ usage_events = {}
    /\ \E r, q \in Slots :
          /\ r # q
          /\ reqs[r] = IdleReq
          /\ Sent(q) /\ reqs[q].statusCode = 200

\* slot r holds a request to GET /v1/health
IsHealth(r) == work[r].pc # "idle" /\ work[r].route = "health"

\* a step of the request to GET /v1/health in slot r
HealthStep(r) ==
    \/ IsHealth(r) /\ work'[r] # work[r]
    \/ work[r].pc = "idle" /\ work'[r].pc # "idle" /\ work'[r].route = "health"

\* C28: GET /v1/health is never authenticated and never rate limited.  Under
\* every authentication setting, whatever X-API-Key comes with it and
\* whatever the limiter has counted, the request waits for no credential
\* lookup, gets neither 401 nor 429 nor rate-limit headers, and is answered
\* 200 with { ok, api_version } and the API version; no step of it changes a
\* counter of the limiter.
C28_HealthIsExempt ==
    /\ [](\A r \in Slots :
            /\ IsHealth(r) =>
                  /\ reqs[r].pc \in {"handler", "running"}
                  /\ reqs[r].statusCode \notin {401, 429}
                  /\ reqs[r].error_code = NULL
                  /\ ~reqs[r].limited /\ ~reqs[r].rlHeaders.set
            /\ (IsHealth(r) /\ Answered(r)) =>
                  /\ Response(r).status = 200
                  /\ Response(r).error_code = NULL
                  /\ Response(r).fields = {"ok", "api_version"}
                  /\ Response(r).api_version = API_VERSION)
    /\ [][\A r \in Slots : HealthStep(r) => rateState' = rateState /\ rlHistory' = rlHistory]_vars

\* C28 witness: in open mode with a limit of 1 the one window there is,
\* "anonymous", is used up in the current minute and a request has been
\* rejected for it, while GET /v1/health has been answered 200; the counter
\* stands at 1.
C28_Witness ==
    /\ ~requireApiKey /\ LimitActive
    /\ "anonymous" \in DOMAIN rateState
    /\ rateState["anonymous"] = [windowEpochMinute |-> nowMinute, count |-> limit]
    /\ \E r, q \in Slots :
          /\ IsHealth(r) /\ Answered(r) /\ Response(r).status = 200
          /\ Rejected429(q)

\* the terminal writes issued for job j so far
TerminalWrites(j) == { i \in DOMAIN jobWrites[j] : jobWrites[j][i] \in Terminal }

\* C29: for every job at most one terminal write (completed or failed) is
\* ever issued, also when the store refuses the `completed` write; a task
\* that has written at all and has ended issued exactly one, as its last
\* write; every job has one background task, and a step that writes a job
\* is a step of that job's task and writes no other job.
C29_OneTerminalWrite ==
    /\ [](/\ DOMAIN tasks = DOMAIN jobs /\ DOMAIN jobWrites = DOMAIN jobs
          /\ \A j \in DOMAIN jobs :
                /\ Cardinality(TerminalWrites(j)) <= 1
                /\ (tasks[j].pc = "done" /\ jobWrites[j] # <<>>) =>
                      TerminalWrites(j) = {Len(jobWrites[j])})
    /\ [][\A j \in DOMAIN jobs :
             jobWrites'[j] # jobWrites[j] =>
                 /\ tasks'[j] # tasks[j]
                 /\ \A k \in DOMAIN jobs \ {j} :
                       /\ jobWrites'[k] = jobWrites[k]
                       /\ jobs'[k] = jobs[k]
                       /\ tasks'[k] = tasks[k]]_vars

\* C29 witness: the store refused the `completed` write of one job, whose
\* row still says processing and whose task has ended after that one
\* terminal write, while another job failed with its one terminal write.
C29_Witness ==
    \E j, k \in DOMAIN jobs :
        /\ tasks[j].pc = "done" /\ jobs[j].status = "processing"
        /\ jobWrites[j] = <<"processing", "completed">>
        /\ tasks[k].pc = "done" /\ jobs[k].status = "failed"
        /\ jobWrites[k] = <<"processing", "failed">>

\* C30: with the task's continuations and the proxy's timer run whenever
\* they can, and the store answering, every job that was created reaches
\* completed or failed, whether the engine answers, fails or stays silent.
C30_EveryJobEnds ==
    \A j \in 1..MaxJobs :
        [](j \in DOMAIN jobs => <>(j \in DOMAIN jobs /\ jobs[j].status \in Terminal))

\* C30 witness: the engine never answered one job, which the timer ended
\* as failed, and another job completed.
C30_Witness ==
    \E j, k \in DOMAIN jobs :
        /\ jobs[j].status = "failed" /\ jobs[j].error = "This operation was aborted"
        /\ jobs[k].status = "completed"

\* what the engine does when a call of it fails
EngineFailures == SyncBehaviours \ {"ok", "ok_rejected"}

\* C31: no caller of the proxy calls the engine twice.  A request to
\* POST /v1/analyze or POST /v1/grade has made one call while it waits for
\* the engine and at most one when it is answered; a call that failed is
\* answered by one 500 and the answer, once sent, is not replaced.  A job's
\* task makes at most one call, none without a base URL, and a call that
\* failed leaves one write of `failed`.
C31_NoRetries ==
    /\ [](/\ \A r \in Slots :
                LET w == work[r] IN
                /\ w.engineCalls <= 1
                /\ w.pc \in {"fetch", "aborted"} => w.engineCalls = 1
                /\ (w.pc = "sent" /\ w.outcome.status \in EngineFailures) =>
                      /\ w.engineCalls = 1
                      /\ w.statusCode = 500 /\ w.error_code = "INTERNAL_ERROR"
                /\ (w.pc = "sent" /\ w.outcome.status = NULL) => w.engineCalls = 0
          /\ \A j \in DOMAIN tasks :
                /\ tasks[j].calls <= 1
                /\ ~NonBlank(env.PREGRADE_PYTHON_BASE_URL) => tasks[j].calls = 0
                /\ tasks[j].pc = "called" => tasks[j].calls = 1
                /\ (tasks[j].pc = "done" /\ tasks[j].resp.threw) =>
                      /\ tasks[j].calls = 1
                      /\ jobWrites[j] = <<"processing", "failed">>)
    /\ [][\A r \in Slots : work[r].pc = "sent" => work'[r] \in {work[r], IdleWork}]_vars

\* C31 witness: the transport failed under a request that was answered 500
\* after its one call, and the engine's error status failed a job after the
\* one call of its task.
C31_Witness ==
    /\ work[1].pc = "sent" /\ work[1].outcome.status = "transport"
    /\ work[1].statusCode = 500 /\ work[1].engineCalls = 1
    /\ \E j \in DOMAIN tasks :
          /\ tasks[j].pc = "done" /\ tasks[j].resp.threw /\ tasks[j].calls = 1
          /\ jobs[j].status = "failed" /\ jobs[j].error = "Python proxy error"

LimiterDecides(r) == ~reqs[r].limited /\ reqs'[r].limited

\* C33: when the limiter admits a request, X-RateLimit-Remaining is the
\* limit minus the subject's counter as it stands once the request has been
\* counted; when it rejects one, the header is 0; X-RateLimit-Reset is the
\* first second of the next minute.
C33_RemainingAfterCounting ==
    [][\A r \in Slots :
         LimiterDecides(r) =>
             LET q == reqs'[r] IN
             /\ q.rlHeaders.set
             /\ q.rlHeaders.reset = (nowMinute + 1) * 60
             /\ q.statusCode = 429 => q.rlHeaders.remaining = 0
             /\ q.statusCode # 429 =>
                   q.rlHeaders.remaining = limit - rateState'[q.subject].count]_vars

\* the tenant a request belongs to: the tenant of the store's row for its
\* key, or, with the allow-list, where there is no tenant but the key, the key
Owner(q) ==
    IF useSupabaseAuth
    THEN (CHOOSE row \in api_keys : row.key_hash = hashApiKey(q.apiKeyStr)).tenant_id
    ELSE q.apiKeyStr

\* the count of tenant t in the current minute
CountOf(t) ==
    IF t \in DOMAIN rateState /\ rateState[t].windowEpochMinute = nowMinute
    THEN rateState[t].count ELSE 0

\* C34: the limiter counts a request against the counter of its tenant,
\* whichever of the tenant's keys it came with: an admitted request raises
\* that counter by one and leaves every other tenant's counter as it was; a
\* request is rejected only when its own tenant's counter has reached the
\* limit, and a rejection changes no counter.
C34_CountersPerTenant ==
    [][\A r \in Slots :
         LimiterDecides(r) =>
             LET q == reqs'[r]
                 t == Owner(q)
             IN  /\ q.subject = t
                 /\ DOMAIN rateState' \subseteq DOMAIN rateState \cup {t}
                 /\ \A k \in DOMAIN rateState \ {t} :
                       k \in DOMAIN rateState' /\ rateState'[k] = rateState[k]
                 /\ q.statusCode = 429 => CountOf(t) >= limit /\ rateState' = rateState
                 /\ q.statusCode # 429 =>
                       /\ CountOf(t) < limit
                       /\ rateState'[t] = [windowEpochMinute |-> nowMinute,
                                            count |-> CountOf(t) + 1]]_vars

\* C34 witness: with a limit of 2, requests with keys 'a' and 'b' of tenant
\* T1 have both been admitted and T1's counter stands at 2, while T2 has no
\* counter.
C34_Witness ==
    /\ useSupabaseAuth /\ limit = 2
    /\ reqs[1].apiKeyStr = "a" /\ reqs[2].apiKeyStr = "b"
    /\ \A r \in {1, 2} : reqs[r].limited /\ reqs[r].statusCode # 429 /\ reqs[r].subject = "T1"
    /\ DOMAIN rateState = {"T1"}
    /\ rateState["T1"] = [windowEpochMinute |-> nowMinute, count |-> 2]

\* C35: authentication comes before the limiter.  A request answered 401,
\* MISSING_API_KEY or INVALID_API_KEY, has not reached the limiter and
\* carries no rate-limit header, and the step that rejects it leaves every
\* counter and the set of windows as they were.
C35_RejectedKeysAreNotCounted ==
    /\ [](\A r \in Slots :
            reqs[r].error_code \in {"MISSING_API_KEY", "INVALID_API_KEY"} =>
                /\ reqs[r].statusCode = 401
                /\ ~reqs[r].limited /\ ~reqs[r].rlHeaders.set
                /\ reqs[r].subject \notin DOMAIN rateState)
    /\ [][\A r \in Slots :
             (reqs[r].statusCode # 401 /\ reqs'[r].statusCode = 401) =>
                 rateState' = rateState]_vars

\* C35 witness: under a limit, one request without a key and one with a key
\* the store does not know have been answered 401, and no window exists.
C35_Witness ==
    /\ LimitActive /\ useSupabaseAuth
    /\ rateState = EmptyMap
    /\ \E r, q \in Slots :
          /\ Rejected401(r, "MISSING_API_KEY")
          /\ Rejected401(q, "INVALID_API_KEY") /\ reqs[q].keyGiven

\* C36: on a route that asks for a key, a request that brings none is
\* answered 401 whatever its body is, a body the route's schema refuses
\* included.
C36_AuthBeforeValidation ==
    \A r \in Slots :
        (/\ Answered(r) /\ requireApiKey
         /\ ~IsExempt(reqs[r].url) /\ ~reqs[r].keyGiven) =>
            /\ Response(r).status = 401
            /\ Response(r).error_code = "MISSING_API_KEY"

\* the body of the request to /v1/analyze or /v1/grade in w is refused, by
\* the route's schema or by the handler's checks
BodyRefused(w) ==
    LET asReceived == [w EXCEPT !.statusCode = 0]
    IN  \/ ~PassedSchema(w)
        \/ (IF w.route = "grade" THEN GradeBodyCheck(asReceived)
                                 ELSE AnalyzeBodyCheck(asReceived)).statusCode # 0

\* C37: a request to /v1/analyze or /v1/grade whose body is refused, by
\* the route's schema or by the handler, is answered 400 with
\* INVALID_REQUEST_FORMAT, MISSING_REQUIRED_FIELD or UNSUPPORTED_CARD_TYPE.
C37_InvalidBodyIs400 ==
    \A r \in Slots :
        (/\ work[r].pc = "sent" /\ work[r].route \in {"analyze", "grade"}
         /\ BodyRefused(work[r])) =>
            /\ work[r].statusCode = 400
            /\ work[r].error_code \in {"INVALID_REQUEST_FORMAT", "MISSING_REQUIRED_FIELD",
                                         "UNSUPPORTED_CARD_TYPE"}

\* the request to POST /v1/jobs in slot r has a body the schema and the
\* handler accept
ValidJob(r) ==
    /\ work[r].route = "jobs"
    /\ ~BodyRefused(work[r])

\* C38: a job is persisted only by a POST /v1/jobs whose body is valid; a
\* POST /v1/jobs that is not answered 200 carries an error envelope and no
\* job_id and has persisted nothing; without a job store there is no job
\* and no task; the task of a job is scheduled once, in the step that
\* answers 200 with its id, and every persisted job has its task scheduled
\* as soon as the request that created it has been answered.
C38_TaskPerPersistedJob ==
    /\ [](/\ Len(tasks) = Len(jobs)
          /\ ~JobsConfigured => jobs = <<>>
          /\ \A j \in DOMAIN jobs :
                tasks[j].pc = "unscheduled" =>
                    \E r \in Slots : work[r].pc = "created" /\ work[r].outcome.jobId = j
          /\ \A r \in Slots :
                (work[r].route = "jobs" /\ work[r].pc = "sent") =>
                    /\ work[r].statusCode = 200 =>
                          /\ ValidJob(r)
                          /\ work[r].payload.job_id \in DOMAIN jobs
                          /\ tasks[work[r].payload.job_id].pc # "unscheduled"
                    /\ work[r].statusCode # 200 =>
                          /\ work[r].error_code # NULL
                          /\ work[r].payload.job_id = 0
                          /\ work[r].outcome.jobId = 0)
    /\ [][/\ Len(jobs') # Len(jobs) =>
                /\ Len(jobs') = Len(jobs) + 1
                /\ \E r \in Slots :
                      /\ ValidJob(r) /\ work[r].pc = "insert"
                      /\ work'[r].outcome.jobId = Len(jobs')
          /\ \A j \in DOMAIN tasks :
                /\ tasks[j].pc # "unscheduled" => tasks'[j].pc \notin {"unscheduled", "scheduled"}
                                                   \/ tasks'[j] = tasks[j]
                /\ (tasks[j].pc = "unscheduled" /\ tasks'[j].pc # "unscheduled") =>
                      /\ tasks'[j].pc = "scheduled"
                      /\ \E r \in Slots :
                            /\ work[r].pc = "created" /\ work[r].outcome.jobId = j
                            /\ work'[r].pc = "sent" /\ work'[r].statusCode = 200]_vars

\* C38 witness: one POST /v1/jobs was answered 500 after the store refused
\* its insert, another 200 with the id of the one job there is, whose task
\* is scheduled.
C38_Witness ==
    \E r, q \in Slots :
        /\ work[r].route = "jobs" /\ work[r].pc = "sent" /\ work[r].statusCode = 500
        /\ work[r].error_message = "insert failed"
        /\ work[q].route = "jobs" /\ work[q].pc = "sent" /\ work[q].statusCode = 200
        /\ Len(jobs) = 1 /\ work[q].payload.job_id = 1 /\ tasks[1].pc = "scheduled"

\* the rows of the store's answer to the request in slot r that are not
\* revoked
LiveRows(r) == { row \in reqs[r].answer.data : row.revoked_at = NULL }

\* the request in slot r brought a key and its path is not exempt
KeyPresented(r) == Decided(r) /\ ~IsExempt(reqs[r].url) /\ reqs[r].apiKeyStr # NULL

\* C39: with the credential store configured, a request with a key is
\* rejected 401 INVALID_API_KEY exactly when the store answered with no
\* non-revoked row for it, whether or not the key is in PREGRADE_API_KEYS,
\* and an accepted request carries the tenant of its row; only without the
\* store does membership in PREGRADE_API_KEYS decide, the key then being
\* the tenant.
C39_StoreOverridesAllowList ==
    \A r \in Slots :
        KeyPresented(r) =>
            IF useSupabaseAuth
            THEN /\ Rejected401(r, "INVALID_API_KEY") <=> LiveRows(r) = {}
                 /\ reqs[r].statusCode # 401 =>
                        \E row \in LiveRows(r) : reqs[r].tenantId = row.tenant_id
            ELSE /\ Rejected401(r, "INVALID_API_KEY") <=>
                        reqs[r].apiKeyStr \notin configuredApiKeys
                 /\ reqs[r].statusCode # 401 => reqs[r].tenantId = reqs[r].apiKeyStr

\* C39 witness: the store is configured and PREGRADE_API_KEYS lists 'c';
\* key 'c', which has no row, was rejected with INVALID_API_KEY, and key
\* 'a', which has a row and is not listed, was let in as its tenant.
C39_Witness ==
    /\ useSupabaseAuth /\ configuredApiKeys = {"c"}
    /\ \E r, q \in Slots :
          /\ reqs[r].apiKeyStr = "c" /\ Rejected401(r, "INVALID_API_KEY")
          /\ ~reqs[r].storeError
          /\ reqs[q].apiKeyStr = "a" /\ Admitted(q) /\ reqs[q].tenantId = "T1"

\* PREGRADE_PYTHON_BASE_URL is unset or blank
EngineUnconfigured == ~NonBlank(env.PREGRADE_PYTHON_BASE_URL)

\* C40: while the engine's base URL is unconfigured, a POST /v1/jobs whose
\* job was persisted is answered 200 with status pending; the job's task
\* never calls the engine, the writes it issues are 'processing' and then
\* 'failed', both of them once it has ended past its select, and a row
\* never has a result and, once failed, has an error and a completion time.
C40_FailsWithoutEngine ==
    EngineUnconfigured =>
        /\ \A r \in Slots :
              (work[r].route = "jobs" /\ work[r].pc = "sent" /\ work[r].outcome.jobId # 0) =>
                  /\ work[r].statusCode = 200
                  /\ work[r].payload.status = "pending"
                  /\ work[r].payload.job_id = work[r].outcome.jobId
        /\ \A j \in DOMAIN jobs :
              /\ tasks[j].calls = 0
              /\ tasks[j].pc # "called"
              /\ jobWrites[j] \in {<<>>, <<"processing">>, <<"processing", "failed">>}
              /\ tasks[j].pc \in {"unscheduled", "scheduled", "mark"} => jobWrites[j] = <<>>
              /\ tasks[j].pc = "run" => jobWrites[j] = <<"processing">>
              /\ tasks[j].pc = "done" => jobWrites[j] \in {<<>>, <<"processing", "failed">>}
              /\ jobs[j].status \in {"pending", "processing", "failed"}
              /\ jobs[j].status = "processing" => Len(jobWrites[j]) >= 1
              /\ jobs[j].status = "failed" => jobWrites[j] = <<"processing", "failed">>
              /\ jobs[j].result = NULL
              /\ jobs[j].status = "failed" <=> jobs[j].error # NULL
              /\ jobs[j].status = "failed" <=> jobs[j].completed_at # NULL

\* C40 witness: without a base URL, job 1 was promised with status pending,
\* its task wrote 'processing' and 'failed' without a call to the engine,
\* and the row is failed with 'Python service not configured.'
C40_Witness ==
    /\ EngineUnconfigured
    /\ \E r \in Slots :
          /\ work[r].route = "jobs" /\ work[r].pc = "sent" /\ work[r].statusCode = 200
          /\ work[r].payload.job_id = 1 /\ work[r].payload.status = "pending"
    /\ Len(jobs) = 1 /\ tasks[1].pc = "done" /\ tasks[1].calls = 0
    /\ jobWrites[1] = <<"processing", "failed">>
    /\ jobs[1].status = "failed" /\ jobs[1].error = "Python service not configured."
    /\ jobs[1].result = NULL

====
